---- MODULE Spec2Model ----
(***************************************************************************)
(* Real-time path of the urban risk service: RealtimeStateManager          *)
(* (api/realtime.py), the WebSocket routes that feed it and fan its        *)
(* predictions out (api/websocket_routes.py).                              *)
(*                                                                         *)
(* The server is one asyncio event loop.  A task runs without interruption *)
(* from one await that suspends to the next, so every action below is one  *)
(* such segment of a handler; an awaited send_text is handed to the socket *)
(* when it is called and returns (or raises) in a later step.              *)
(*                                                                         *)
(* Units.  Time is counted in ticks, TicksPerInterval ticks to the rate    *)
(* gate's minimum interval 1.0 / MAX_INFERENCE_RATE s.  Ratios             *)
(* (hospital_load, price_volatility), probabilities are in hundredths;     *)
(* confidence is in thirtieths (the mean of three values in tenths).       *)
(***************************************************************************)
EXTENDS Integers, Sequences, FiniteSets, TLC

VARIABLES
    now,              \* time.time() / datetime.now(), in ticks
    state_manager,    \* the RealtimeStateManager singleton
    manager,          \* the ConnectionManager singleton
    sub_pc,           \* websocket_predictions handler of each subscriber
    peer,             \* whether the subscriber's peer is still connected
    sent,             \* per subscriber: the messages send_text was called with
    ctl,              \* per subscriber: control messages received so far
    task_pc,          \* position of the ingest handler and of the simulator
    bcast,            \* per task: the running broadcast_prediction frame
    ing_msgs,         \* messages the ingest handler has received
    ing_replies,      \* replies the ingest handler has passed to send_text
    sim_wake,         \* time at which the simulator's sleep ends
    produced,         \* history: every record run_inference appended, in order
    admitted,         \* history: times of the calls that passed the rate gate
    call,             \* history: the run_inference call made by the last step
    fn                \* the library function applied by the last step, with
                      \* its arguments and what it returned

vars == <<now, state_manager, manager, sub_pc, peer, sent, ctl, task_pc, bcast,
          ing_msgs, ing_replies, sim_wake, produced, admitted, call, fn>>

(***************************************************************************)
(* Bounds of the model.                                                    *)
(***************************************************************************)
TicksPerInterval == 2
MaxTime == 4
MaxMsgs == 2
MaxCtl == 1
MaxOverflow == 2
MaxCallersTime == 6
ProbGrid == 20

(***************************************************************************)
(* Program constants.                                                      *)
(***************************************************************************)
WINDOW_SIZE == 60
STALE_THRESHOLD == 60
MAX_INFERENCE_RATE == 2
SLEEP_SECONDS == 5

MinInterval == TicksPerInterval
TicksPerSecond == MAX_INFERENCE_RATE * TicksPerInterval

Clients == {"c1", "c2", "c3"}
Tasks == {"ingest", "sim"}

(***************************************************************************)
(* Python values.  A dict is a function from the keys it holds.            *)
(***************************************************************************)
None == [t |-> "None"]
Num(v) == [t |-> "num", v |-> v]
DateTime(v) == [t |-> "datetime", v |-> v]
Str(s) == [t |-> "str", s |-> s]

Get(d, k, default) == IF k \in DOMAIN d THEN d[k] ELSE default

\* Python truthiness of a value: None, 0 and "" are false.
Truthy(x) == x # None /\ x # Num(0) /\ x # Str("")

\* Python's `x or d`.
OrElse(x, d) == IF Truthy(x) THEN x ELSE d

Min(a, b) == IF a < b THEN a ELSE b

\* datetime.isoformat() and str(datetime): two different texts of one instant
\* ("2024-01-01T10:00:00" and "2024-01-01 10:00:00").
isoformat(ts) == [t |-> "isoformat", v |-> ts.v]
str_datetime(ts) == [t |-> "str(datetime)", v |-> ts.v]

\* list.remove(x): drops the first occurrence.
RECURSIVE ListRemove(_, _)
ListRemove(s, x) ==
    IF s = <<>> THEN <<>>
    ELSE IF Head(s) = x THEN Tail(s)
    ELSE <<Head(s)>> \o ListRemove(Tail(s), x)

InList(s, x) == \E i \in 1..Len(s) : s[i] = x

\* deque(maxlen = n).append(x)
DequeAppendUnbounded(d, x, n) == Append(d, x)
DequeAppend(d, x, n) ==
    IF Len(d) < n THEN Append(d, x)
    ELSE IF n = 0 THEN <<>>
    ELSE Append(Tail(d), x)

(***************************************************************************)
(* RealtimeStateManager                                                    *)
(***************************************************************************)
NewStateManager ==
    [ environmental_state |->
          [aqi |-> None, temperature |-> None, humidity |-> None, timestamp |-> None],
      health_state |->
          [hospital_load |-> None, respiratory_cases |-> None, timestamp |-> None],
      food_state |->
          [price_volatility |-> None, supply_index |-> None, timestamp |-> None],
      prediction_history |-> <<>>,
      latest_prediction |-> None,
      last_inference_time |-> 0,
      connected_clients |-> <<>> ]

\* The body shared by update_environmental, update_health and update_food:
\* every listed field the data carries with a non-None value is stored, and
\* the slot is stamped when at least one was.
UpdateSlot(slot, fields, data, t) ==
    LET timestamp == Get(data, "timestamp", DateTime(t))
        given == {f \in fields : Get(data, f, None) # None}
        stored == [k \in DOMAIN slot |->
                      IF k \in given THEN data[k]
                      ELSE IF k = "timestamp" /\ given # {} THEN timestamp
                      ELSE slot[k]]
    IN [slot |-> stored, changed |-> given # {}]

update_environmental(self, data, t) ==
    LET u == UpdateSlot(self.environmental_state,
                        {"aqi", "temperature", "humidity"}, data, t)
    IN [self |-> [self EXCEPT !.environmental_state = u.slot], changed |-> u.changed]

update_health(self, data, t) ==
    LET u == UpdateSlot(self.health_state,
                        {"hospital_load", "respiratory_cases"}, data, t)
    IN [self |-> [self EXCEPT !.health_state = u.slot], changed |-> u.changed]

update_food(self, data, t) ==
    LET u == UpdateSlot(self.food_state,
                        {"price_volatility", "supply_index"}, data, t)
    IN [self |-> [self EXCEPT !.food_state = u.slot], changed |-> u.changed]

\* One slot's share of get_confidence, in tenths.
SlotConfidence(slot, t) ==
    LET ts == slot.timestamp
        age == t - ts.v
        stale == STALE_THRESHOLD * TicksPerSecond
    IN IF ts = None THEN 5
       ELSE IF age < stale THEN 10
       ELSE IF age < stale * 2 THEN 8
       ELSE IF age < stale * 5 THEN 5
       ELSE 3

\* get_confidence: the mean over the three slots (in thirtieths); `now - ts`
\* raises TypeError when a stored timestamp is not a datetime.
get_confidence(self, t) ==
    LET slots == <<self.environmental_state, self.health_state, self.food_state>>
        bad == \E i \in 1..3 : slots[i].timestamp.t \notin {"None", "datetime"}
    IN IF bad THEN [raised |-> TRUE, value |-> 0]
       ELSE [raised |-> FALSE,
             value |-> SlotConfidence(slots[1], t) + SlotConfidence(slots[2], t)
                       + SlotConfidence(slots[3], t)]

get_merged_state(self) ==
    [ aqi |-> OrElse(self.environmental_state.aqi, Num(100)),
      temperature |-> OrElse(self.environmental_state.temperature, Num(25)),
      humidity |-> OrElse(self.environmental_state.humidity, Num(60)),
      hospital_load |-> OrElse(self.health_state.hospital_load, Num(50)),
      respiratory_cases |-> OrElse(self.health_state.respiratory_cases, Num(100)),
      bed_occupancy_percent |-> OrElse(self.health_state.hospital_load, Num(50)),
      price_volatility |-> OrElse(self.food_state.price_volatility, Num(10)),
      crop_supply_index |-> OrElse(self.food_state.supply_index, Num(80)) ]

(***************************************************************************)
(* Preprocessor (model/preprocessing.py).  Every number is in hundredths:  *)
(* aqi 150.0 is 15000, hospital_load 0.65 is 65, traffic_density 2 is 200. *)
(* A float is Num(v), Inf or NegInf; float('nan') counts as missing        *)
(* (handle_missing) and never reaches the arithmetic.                      *)
(***************************************************************************)
Max(a, b) == IF a > b THEN a ELSE b

\* int(num / den) for den > 0: truncation towards zero.
IntTrunc(num, den) == IF num >= 0 THEN num \div den ELSE -((-num) \div den)

\* round(num / den) for den > 0: to the nearest integer, a tie to the even one.
Round(num, den) ==
    LET q == num \div den
        twice == 2 * (num - q * den)
    IN IF twice < den THEN q
       ELSE IF twice > den THEN q + 1
       ELSE IF q % 2 = 0 THEN q ELSE q + 1


Inf == [t |-> "inf"]
NegInf == [t |-> "-inf"]
NaN == [t |-> "nan"]
List == [t |-> "list"]

Hundredths(x) == 100 * x

ENVIRONMENTAL_DEFAULTS ==
    [aqi |-> Hundredths(100), traffic_density |-> Hundredths(1),
     temperature |-> Hundredths(30), rainfall |-> Hundredths(20)]

ENVIRONMENTAL_RANGES ==
    [aqi |-> <<0, Hundredths(500)>>, traffic_density |-> <<0, Hundredths(2)>>,
     temperature |-> <<0, Hundredths(50)>>, rainfall |-> <<0, Hundredths(200)>>]

HEALTH_DEFAULTS ==
    [aqi |-> Hundredths(100), hospital_load |-> 65,
     respiratory_cases |-> Hundredths(200), temperature |-> Hundredths(30),
     environmental_risk_prob |-> 50]

HEALTH_RANGES ==
    [aqi |-> <<0, Hundredths(500)>>, hospital_load |-> <<0, 100>>,
     respiratory_cases |-> <<0, Hundredths(10000)>>,
     temperature |-> <<0, Hundredths(50)>>, environmental_risk_prob |-> <<0, 100>>]

FOOD_DEFAULTS ==
    [crop_supply_index |-> Hundredths(75), food_price_index |-> Hundredths(100),
     rainfall |-> Hundredths(40), temperature |-> Hundredths(30),
     supply_disruption_events |-> Hundredths(1)]

FOOD_RANGES ==
    [crop_supply_index |-> <<0, Hundredths(100)>>,
     food_price_index |-> <<Hundredths(50), Hundredths(200)>>,
     rainfall |-> <<0, Hundredths(200)>>, temperature |-> <<0, Hundredths(50)>>,
     supply_disruption_events |-> <<0, Hundredths(10)>>]

\* a < b on floats.
Lt(a, b) ==
    IF a.t = "-inf" THEN b.t # "-inf"
    ELSE IF a.t = "inf" THEN FALSE
    ELSE IF b.t = "inf" THEN TRUE
    ELSE IF b.t = "-inf" THEN FALSE
    ELSE a.v < b.v

\* min(a, b) and max(a, b): the first argument unless the second beats it.
PyMin(a, b) == IF Lt(b, a) THEN b ELSE a
PyMax(a, b) == IF Lt(a, b) THEN b ELSE a

clip_to_range(value, min_val, max_val) ==
    PyMax(Num(min_val), PyMin(Num(max_val), value))

\* handle_missing: None and float('nan') give the default.
handle_missing(value, default) ==
    IF value = None \/ value = NaN THEN Num(default) ELSE value

\* float(x): TypeError for what is no number or text, ValueError for a text
\* that is no number.
ToFloat(x) ==
    IF x.t \in {"num", "inf", "-inf"} THEN [raised |-> "", value |-> x]
    ELSE IF x.t = "str" THEN [raised |-> "ValueError", value |-> x]
    ELSE [raised |-> "TypeError", value |-> x]

\* int(x) and int(round(x)) of a float: OverflowError on an infinity.
ToInt(x, rounding) ==
    IF x.t # "num" THEN [raised |-> "OverflowError", value |-> x]
    ELSE [raised |-> "",
          value |-> Num(Hundredths(IF rounding THEN Round(x.v, 100)
                                   ELSE IntTrunc(x.v, 100)))]

\* What a field's try block does between float() and clip_to_range.
\*   "kelvin":  if temp > 200: temp = temp - 273.15
\*   "percent": if load > 1: load = load / 100
\*   "int":     int(float(x));   "round": int(round(float(x)))
Convert(x, conv) ==
    IF conv = "kelvin" /\ Lt(Num(Hundredths(200)), x)
    THEN [raised |-> "", converted |-> TRUE,
          value |-> IF x.t = "num" THEN Num(x.v - 27315) ELSE x]
    ELSE IF conv = "percent" /\ Lt(Num(100), x)
    THEN [raised |-> "", converted |-> TRUE,
          value |-> IF x.t = "num" THEN Num(x.v \div 100) ELSE x]
    ELSE IF conv \in {"int", "round"}
    THEN [raised |-> ToInt(x, conv = "round").raised, converted |-> FALSE,
          value |-> ToInt(x, conv = "round").value]
    ELSE [raised |-> "", converted |-> FALSE, value |-> x]

Note(field, what) == [field |-> field, what |-> what]

\* One field's try/except block.  `says` lists what the block appends to
\* the assumptions besides the "invalid" of its except clause: "converted"
\* after a unit conversion, "adjusted" when the result differs from the raw
\* value.  Only TypeError and ValueError are caught.
Field(metrics, field, default, range, conv, says) ==
    LET raw == Get(metrics, field, None)
        f == ToFloat(handle_missing(raw, default))
        c == Convert(f.value, conv)
        clipped == clip_to_range(c.value, range[1], range[2])
    IN IF f.raised # ""
       THEN [raised |-> FALSE, value |-> default, notes |-> <<Note(field, "invalid")>>]
       ELSE IF c.raised # ""
       THEN [raised |-> TRUE, value |-> default, notes |-> <<>>]
       ELSE [raised |-> FALSE, value |-> clipped.v,
             notes |-> (IF c.converted /\ "converted" \in says
                        THEN <<Note(field, "converted")>> ELSE <<>>)
                       \o (IF "adjusted" \in says /\ clipped # raw
                           THEN <<Note(field, "adjusted")>> ELSE <<>>)]

\* The result of a preprocess_* function from its fields' blocks, in order.
RECURSIVE JoinNotes(_, _)
JoinNotes(blocks, order) ==
    IF order = <<>> THEN <<>>
    ELSE blocks[Head(order)].notes \o JoinNotes(blocks, Tail(order))

Processed(blocks, order) ==
    [raised |-> \E k \in DOMAIN blocks : blocks[k].raised,
     processed |-> [k \in DOMAIN blocks |-> blocks[k].value],
     assumptions |-> JoinNotes(blocks, order)]

preprocess_environmental_metrics(metrics) ==
    LET D == ENVIRONMENTAL_DEFAULTS
        R == ENVIRONMENTAL_RANGES
    IN Processed(
         [aqi |-> Field(metrics, "aqi", D.aqi, R.aqi, "none", {"adjusted"}),
          traffic_density |-> Field(metrics, "traffic_density", D.traffic_density,
                                    R.traffic_density, "round", {}),
          temperature |-> Field(metrics, "temperature", D.temperature,
                                R.temperature, "kelvin", {"converted"}),
          rainfall |-> Field(metrics, "rainfall", D.rainfall, R.rainfall, "none", {})],
         <<"aqi", "traffic_density", "temperature", "rainfall">>)

\* preprocess_health_metrics with env_risk_prob = None, as every caller has it.
preprocess_health_metrics(metrics) ==
    LET D == HEALTH_DEFAULTS
        R == HEALTH_RANGES
    IN Processed(
         [aqi |-> Field(metrics, "aqi", D.aqi, R.aqi, "none", {}),
          hospital_load |-> Field(metrics, "hospital_load", D.hospital_load,
                                  R.hospital_load, "percent", {"converted"}),
          respiratory_cases |-> Field(metrics, "respiratory_cases", D.respiratory_cases,
                                      R.respiratory_cases, "int", {}),
          temperature |-> Field(metrics, "temperature", D.temperature,
                                R.temperature, "kelvin", {}),
          environmental_risk_prob |->
              Field(metrics, "environmental_risk_prob", D.environmental_risk_prob,
                    R.environmental_risk_prob, "none", {})],
         <<"aqi", "hospital_load", "respiratory_cases", "temperature",
           "environmental_risk_prob">>)

preprocess_food_metrics(metrics) ==
    LET D == FOOD_DEFAULTS
        R == FOOD_RANGES
    IN Processed(
         [crop_supply_index |-> Field(metrics, "crop_supply_index", D.crop_supply_index,
                                      R.crop_supply_index, "none", {}),
          food_price_index |-> Field(metrics, "food_price_index", D.food_price_index,
                                     R.food_price_index, "none", {}),
          rainfall |-> Field(metrics, "rainfall", D.rainfall, R.rainfall, "none", {}),
          temperature |-> Field(metrics, "temperature", D.temperature,
                                R.temperature, "kelvin", {}),
          supply_disruption_events |->
              Field(metrics, "supply_disruption_events", D.supply_disruption_events,
                    R.supply_disruption_events, "int", {})],
         <<"crop_supply_index", "food_price_index", "rainfall", "temperature",
           "supply_disruption_events">>)

preprocess_all_metrics(metrics) ==
    LET env_metrics == preprocess_environmental_metrics(metrics)
        health_metrics == preprocess_health_metrics(metrics)
        food_metrics == preprocess_food_metrics(metrics)
    IN [raised |-> env_metrics.raised \/ health_metrics.raised \/ food_metrics.raised,
        env_metrics |-> env_metrics.processed,
        health_metrics |-> health_metrics.processed,
        food_metrics |-> food_metrics.processed,
        all_assumptions |-> env_metrics.assumptions \o health_metrics.assumptions
                            \o food_metrics.assumptions]

(***************************************************************************)
(* CascadingRiskEngine (model/cascading_engine.py).  Probabilities are in  *)
(* hundredths.                                                             *)
(***************************************************************************)
RESILIENCE_WEIGHTS == [environmental |-> 35, health |-> 40, food |-> 25]


\* _calculate_resilience_score: weighted_risk is in 1/10000 and resilience in
\* hundredths of a point.
calculate_resilience_score(env_high_prob, health_high_prob, food_high_prob) ==
    LET weighted_risk == RESILIENCE_WEIGHTS.environmental * env_high_prob
                         + RESILIENCE_WEIGHTS.health * health_high_prob
                         + RESILIENCE_WEIGHTS.food * food_high_prob
        resilience == 100 * 100 - weighted_risk
    IN IntTrunc(Max(0, Min(100 * 100, resilience)), 100)

\* What a classifier's predict_with_proba answers for one sample.
Answer(class, low, medium, high) ==
    [class |-> class, probabilities |-> [low |-> low, medium |-> medium, high |-> high]]

\* The health feature vector gets the environmental probability of high.
inject_nothing(health_metrics, env_high_prob) == health_metrics
inject(health_metrics, env_high_prob) ==
    [health_metrics EXCEPT !.environmental_risk_prob = env_high_prob]

\* predict_cascading_risks on `metrics` when the three trained classifiers
\* answer env_result, health_result and food_result; X_env, X_health and
\* X_food are the feature vectors they were asked with.  The entropy-based
\* per-domain confidence is left out.
cascade(metrics, env_result, health_result, food_result) ==
    LET pre == preprocess_all_metrics(metrics)
        env_metrics == pre.env_metrics
        env_high_prob == env_result.probabilities.high
        health_metrics == inject(pre.health_metrics, env_high_prob)
        health_high_prob == health_result.probabilities.high
        food_metrics == pre.food_metrics
        food_high_prob == food_result.probabilities.high
    IN [raised |-> pre.raised,
        X_env |-> <<env_metrics.aqi, env_metrics.traffic_density,
                    env_metrics.temperature, env_metrics.rainfall>>,
        X_health |-> <<health_metrics.aqi, health_metrics.hospital_load,
                       health_metrics.respiratory_cases, health_metrics.temperature,
                       health_metrics.environmental_risk_prob>>,
        X_food |-> <<food_metrics.crop_supply_index, food_metrics.food_price_index,
                     food_metrics.rainfall, food_metrics.temperature,
                     food_metrics.supply_disruption_events>>,
        result |->
            [environmental |-> [risk |-> env_result.class, prob |-> env_high_prob,
                                probabilities |-> env_result.probabilities],
             health |-> [risk |-> health_result.class, prob |-> health_high_prob,
                         probabilities |-> health_result.probabilities],
             food_security |-> [risk |-> food_result.class, prob |-> food_high_prob,
                                probabilities |-> food_result.probabilities],
             resilience_score |->
                 calculate_resilience_score(env_high_prob, health_high_prob,
                                            food_high_prob),
             cascading_effect |-> [env_risk_injected_to_health |-> env_high_prob],
             assumptions |-> pre.all_assumptions]]

\* The trained classifiers are opaque; where the server runs the engine, a
\* threshold on one metric stands for each of them and the result is cut down
\* to the risk and the probability of high of each domain (in the units of
\* the state manager).
Classify(x, medium, high) ==
    IF x >= high THEN [risk |-> "high", prob |-> 80]
    ELSE IF x >= medium THEN [risk |-> "medium", prob |-> 30]
    ELSE [risk |-> "low", prob |-> 5]

\* engine.predict_cascading_risks(metrics) as run_inference calls it.
predict_cascading_risks(metrics) ==
    [ environmental |-> Classify(metrics.aqi.v, 100, 200),
      health |-> Classify(metrics.bed_occupancy_percent.v, 60, 85),
      food_security |-> Classify(100 - metrics.crop_supply_index.v, 30, 60) ]

\* The PredictionRecord run_inference builds from the engine's result.
MakeRecord(result, confidence, t) ==
    LET env_pred == Get(result, "environmental", <<>>)
        health_pred == Get(result, "health", <<>>)
        food_pred == Get(result, "food_security", <<>>)
    IN [ timestamp |-> DateTime(t),
         environmental_risk |-> Get(env_pred, "risk_level", "medium"),
         environmental_prob |-> Get(env_pred, "high_prob", 50),
         health_risk |-> Get(health_pred, "risk_level", "low"),
         health_prob |-> Get(health_pred, "high_prob", 20),
         food_security_risk |-> Get(food_pred, "risk_level", "low"),
         food_security_prob |-> Get(food_pred, "high_prob", 10),
         confidence |-> confidence,
         inference_time_ms |-> 0 ]

\* The rate gate of run_inference.
GateRejectsHalf(self, t) == 2 * (t - self.last_inference_time) < MinInterval
GateRejects(self, t) == t - self.last_inference_time < MinInterval

\* run_inference at time t.  engine_ok is whether MLEngine.get_instance() and
\* the engine's prediction return (they raise when the models cannot be
\* loaded or are not trained).  gate: "rejected" by the rate gate, "failed"
\* in the try block, or "predicted".
AdmittedStampsOnSuccess(self, t, engine_ok) ==
    LET gated == [self EXCEPT !.last_inference_time = t]
        conf == get_confidence(gated, t)
    IN IF conf.raised \/ ~engine_ok
       THEN [self |-> self, result |-> None, gate |-> "failed"]
       ELSE
         LET record == MakeRecord(predict_cascading_risks(get_merged_state(gated)),
                                  conf.value, t)
         IN [self |-> [gated EXCEPT
                          !.prediction_history = DequeAppend(@, record, WINDOW_SIZE),
                          !.latest_prediction = record],
             result |-> record, gate |-> "predicted"]
Admitted(self, t, engine_ok) ==
    LET gated == [self EXCEPT !.last_inference_time = t]
        conf == get_confidence(gated, t)
    IN IF conf.raised \/ ~engine_ok
       THEN [self |-> gated, result |-> None, gate |-> "failed"]
       ELSE
         LET record == MakeRecord(predict_cascading_risks(get_merged_state(gated)),
                                  conf.value, t)
         IN [self |-> [gated EXCEPT
                          !.prediction_history = DequeAppend(@, record, WINDOW_SIZE),
                          !.latest_prediction = record],
             result |-> record, gate |-> "predicted"]

run_inference_stamps_first(self, t, engine_ok) ==
    IF GateRejects(self, t)
    THEN [self |-> [self EXCEPT !.last_inference_time = t],
          result |-> None, gate |-> "rejected"]
    ELSE Admitted(self, t, engine_ok)
run_inference(self, t, engine_ok) ==
    IF GateRejects(self, t)
    THEN [self |-> self, result |-> None, gate |-> "rejected"]
    ELSE Admitted(self, t, engine_ok)

get_prediction_history(self) ==
    [i \in 1..Len(self.prediction_history) |->
        [k \in DOMAIN self.prediction_history[i] \ {"inference_time_ms"} |->
            IF k = "timestamp" THEN isoformat(self.prediction_history[i][k])
            ELSE self.prediction_history[i][k]]]

\* get_trend_summary: needs five records and at least one older than those;
\* a direction per domain from the means of the latest five and of the (up
\* to ten) records before them, compared with 0.05.
RECURSIVE SumProb(_, _)
SumProb(recs, field) ==
    IF recs = <<>> THEN 0 ELSE Head(recs)[field] + SumProb(Tail(recs), field)

get_trend_direction(recent_sum, recent_n, older_sum, older_n) ==
    LET diff == recent_sum * older_n - older_sum * recent_n
        bar == 5 * recent_n * older_n
    IN IF diff > bar THEN "increasing"
       ELSE IF diff < -bar THEN "decreasing"
       ELSE "stable"

get_trend_summary(self) ==
    LET history == self.prediction_history
        n == Len(history)
        recent == SubSeq(history, n - 4, n)
        older == IF n >= 15 THEN SubSeq(history, n - 14, n - 5)
                 ELSE SubSeq(history, 1, n - 5)
        dir(field) == get_trend_direction(SumProb(recent, field), Len(recent),
                                          SumProb(older, field), Len(older))
    IN IF n < 5 THEN [status |-> "insufficient_data"]
       ELSE IF older = <<>> THEN [status |-> "insufficient_data"]
       ELSE [status |-> "ok",
             environmental |-> dir("environmental_prob"),
             health |-> dir("health_prob"),
             food_security |-> dir("food_security_prob")]

(***************************************************************************)
(* ConnectionManager                                                       *)
(***************************************************************************)
\* ConnectionManager.disconnect: both removals are guarded by membership.
Disconnect(mgr, self, ws) ==
    [manager |-> [mgr EXCEPT !.active_connections =
                     IF InList(@, ws) THEN ListRemove(@, ws) ELSE @],
     self |-> [self EXCEPT !.connected_clients =
                     IF InList(@, ws) THEN ListRemove(@, ws) ELSE @]]

(***************************************************************************)
(* broadcast_prediction                                                    *)
(***************************************************************************)
PredictionData(prediction) ==
    [k \in DOMAIN prediction |->
        IF k = "timestamp" THEN isoformat(prediction[k]) ELSE prediction[k]]

PredictionMessage(self, prediction) ==
    [type |-> "prediction", data |-> PredictionData(prediction),
     trends |-> get_trend_summary(self)]

\* The frame of a running broadcast_prediction: `index` elements of the list
\* have been taken by the loop, `client` is the one whose send_text is
\* awaited and `ticket` the place of that message among those handed to the
\* client's socket; `members` remembers the clients connected when the
\* broadcast began.
NoFrame ==
    [prediction |-> None, message |-> None, client |-> "", index |-> 0,
     ticket |-> 0, disconnected |-> <<>>, members |-> <<>>]

\* The clean-up loop: connected_clients.remove(client) for each collected
\* client; list.remove raises ValueError when the client is no longer there.
RECURSIVE CleanUp(_, _)
CleanUp(clients, disconnected) ==
    IF disconnected = <<>> THEN [clients |-> clients, raised |-> FALSE]
    ELSE IF ~InList(clients, Head(disconnected))
         THEN [clients |-> clients, raised |-> TRUE]
    ELSE CleanUp(ListRemove(clients, Head(disconnected)), Tail(disconnected))

\* The list iterator of `for client in self.connected_clients` after `index`
\* elements were taken: the next element of the list as it is now, if any.
HasNext(clients, index) == index < Len(clients)

(***************************************************************************)
(* Inputs                                                                  *)
(***************************************************************************)
\* Texts a data source sends to /ws/data-ingest: `syntax` is what json.loads
\* makes of the text, `payload` the dict of a JSON object.
IngestMessages ==
    { [syntax |-> "invalid"],
      [syntax |-> "array"],
      [syntax |-> "object", payload |-> [domain |-> Str("water"), aqi |-> Num(150)]],
      [syntax |-> "object", payload |-> [domain |-> Str("Environmental"), aqi |-> Num(150)]],
      [syntax |-> "object", payload |-> [domain |-> Str("environmental"), aqi |-> None]],
      [syntax |-> "object", payload |-> [domain |-> Str("health"), hospital_load |-> Num(80)]],
      [syntax |-> "object", payload |->
          [domain |-> Str("food"), supply_index |-> Num(40), timestamp |-> Str("2024-01-01")]] }

\* The well-formed update among them that the fan-out is driven with.
UpdateMessages ==
    {m \in IngestMessages :
        m.syntax = "object" /\ m.payload = [domain |-> Str("Environmental"), aqi |-> Num(150)]}

\* The texts json.loads turns into a dict whose domain names a slot.
Lower(s) ==
    IF s = "Environmental" THEN "environmental" ELSE s

Domains == {"environmental", "health", "food"}

\* Control texts a subscriber sends on /ws/predictions.
Controls == {"ping", "get_trends", "get_history"}

\* What the simulator draws: base values stand for the uniform offsets.
SimEnvData(t) ==
    [aqi |-> Num(180), temperature |-> Num(28), humidity |-> Num(65),
     timestamp |-> DateTime(t)]
SimHealthData(t) ==
    [hospital_load |-> Num(65), respiratory_cases |-> Num(120), timestamp |-> DateTime(t)]
SimFoodData(t) ==
    [price_volatility |-> Num(12), supply_index |-> Num(85), timestamp |-> DateTime(t)]

(***************************************************************************)
(* Initial state                                                           *)
(***************************************************************************)
NoCall == [by |-> "none", gate |-> "none", before |-> NewStateManager]

\* No library function has been applied.
NoFn == [name |-> "none"]

Init ==
    /\ now = MinInterval
    /\ state_manager = NewStateManager
    /\ manager = [active_connections |-> <<>>]
    /\ sub_pc = [c \in Clients |-> "new"]
    /\ peer = [c \in Clients |-> "open"]
    /\ sent = [c \in Clients |-> <<>>]
    /\ ctl = [c \in Clients |-> 0]
    /\ task_pc = [ingest |-> "receive", sim |-> "sleep"]
    /\ bcast = [t \in Tasks |-> NoFrame]
    /\ ing_msgs = <<>>
    /\ ing_replies = <<>>
    /\ sim_wake = MinInterval
    /\ produced = <<>>
    /\ admitted = <<>>
    /\ call = NoCall
    /\ fn = NoFn

(***************************************************************************)
(* Time                                                                    *)
(***************************************************************************)
\* The clock advances by `step` ticks while it stays within `horizon`.
Tick(horizon, step) ==
    /\ now + step <= horizon
    /\ now' = now + step
    /\ call' = NoCall /\ UNCHANGED fn
    /\ UNCHANGED <<state_manager, manager, sub_pc, peer, sent, ctl, task_pc, bcast,
                   ing_msgs, ing_replies, sim_wake, produced, admitted>>

(***************************************************************************)
(* /ws/predictions: one handler per subscriber                             *)
(***************************************************************************)
\* model_dump() keeps the record's datetime, which json.dumps(default=str)
\* then writes with str().
ModelDump(prediction) ==
    [k \in DOMAIN prediction |->
        IF k = "timestamp" THEN str_datetime(prediction[k]) ELSE prediction[k]]

InitMessage(self) ==
    [type |-> "init",
     data |-> [history |-> get_prediction_history(self),
               trends |-> get_trend_summary(self),
               latest |-> IF self.latest_prediction # None
                          THEN ModelDump(self.latest_prediction) ELSE None]]

\* manager.connect once accept() has returned, then the initial snapshot is
\* built and passed to send_text.
SubConnect(c) ==
    /\ sub_pc[c] = "new"
    /\ peer[c] = "open"
    /\ manager' = [manager EXCEPT !.active_connections = Append(@, c)]
    /\ state_manager' = [state_manager EXCEPT !.connected_clients = Append(@, c)]
    /\ sent' = [sent EXCEPT ![c] = Append(@, InitMessage(state_manager'))]
    /\ sub_pc' = [sub_pc EXCEPT ![c] = "send"]
    /\ call' = NoCall /\ UNCHANGED fn
    /\ UNCHANGED <<now, peer, ctl, task_pc, bcast, ing_msgs, ing_replies,
                   sim_wake, produced, admitted>>

\* The handler's own send_text returns.
SubSendReturns(c) ==
    /\ sub_pc[c] = "send"
    /\ peer[c] = "open"
    /\ sub_pc' = [sub_pc EXCEPT ![c] = "receive"]
    /\ call' = NoCall /\ UNCHANGED fn
    /\ UNCHANGED <<now, state_manager, manager, peer, sent, ctl, task_pc, bcast,
                   ing_msgs, ing_replies, sim_wake, produced, admitted>>

\* The handler's own send_text raises because the peer is gone.  Only
\* WebSocketDisconnect is caught (and runs manager.disconnect); any other
\* exception ends the handler where it stands.
SubSendRaises(c, exc) ==
    /\ sub_pc[c] = "send"
    /\ peer[c] = "closed"
    /\ IF exc = "WebSocketDisconnect"
       THEN LET d == Disconnect(manager, state_manager, c)
            IN /\ manager' = d.manager
               /\ state_manager' = d.self
               /\ sub_pc' = [sub_pc EXCEPT ![c] = "closed"]
       ELSE /\ sub_pc' = [sub_pc EXCEPT ![c] = "raised"]
            /\ UNCHANGED <<manager, state_manager>>
    /\ call' = NoCall /\ UNCHANGED fn
    /\ UNCHANGED <<now, peer, sent, ctl, task_pc, bcast, ing_msgs, ing_replies,
                   sim_wake, produced, admitted>>

ControlReply(self, text) ==
    IF text = "ping" THEN [type |-> "pong"]
    ELSE IF text = "get_trends" THEN [type |-> "trends", data |-> get_trend_summary(self)]
    ELSE [type |-> "history", data |-> get_prediction_history(self)]

\* receive_text returns a control text; its reply is passed to send_text.
SubControl(c, text) ==
    /\ sub_pc[c] = "receive"
    /\ peer[c] = "open"
    /\ ctl[c] < MaxCtl
    /\ ctl' = [ctl EXCEPT ![c] = @ + 1]
    /\ sent' = [sent EXCEPT ![c] = Append(@, ControlReply(state_manager, text))]
    /\ sub_pc' = [sub_pc EXCEPT ![c] = "send"]
    /\ call' = NoCall /\ UNCHANGED fn
    /\ UNCHANGED <<now, state_manager, manager, peer, task_pc, bcast, ing_msgs,
                   ing_replies, sim_wake, produced, admitted>>

\* The subscriber's peer closes the connection.
PeerClose(c) ==
    /\ sub_pc[c] \in {"send", "receive"}
    /\ peer[c] = "open"
    /\ peer' = [peer EXCEPT ![c] = "closed"]
    /\ call' = NoCall /\ UNCHANGED fn
    /\ UNCHANGED <<now, state_manager, manager, sub_pc, sent, ctl, task_pc, bcast,
                   ing_msgs, ing_replies, sim_wake, produced, admitted>>

\* receive_text raises WebSocketDisconnect: manager.disconnect(websocket).
SubDisconnect(c) ==
    /\ sub_pc[c] = "receive"
    /\ peer[c] = "closed"
    /\ LET d == Disconnect(manager, state_manager, c)
       IN /\ manager' = d.manager
          /\ state_manager' = d.self
    /\ sub_pc' = [sub_pc EXCEPT ![c] = "closed"]
    /\ call' = NoCall /\ UNCHANGED fn
    /\ UNCHANGED <<now, peer, sent, ctl, task_pc, bcast, ing_msgs, ing_replies,
                   sim_wake, produced, admitted>>

(***************************************************************************)
(* The tasks that call run_inference: the /ws/data-ingest handler and the  *)
(* simulator                                                               *)
(***************************************************************************)
\* The ingest handler passes a reply to send_text.
Reply(r) ==
    /\ ing_replies' = Append(ing_replies, r)
    /\ task_pc' = [task_pc EXCEPT !.ingest = "reply"]
    /\ UNCHANGED sim_wake

\* An exception no handler of the task catches ends the task.
Raise(t) ==
    /\ task_pc' = [task_pc EXCEPT ![t] = "raised"]
    /\ UNCHANGED <<ing_replies, sim_wake>>

\* asyncio.sleep(5) at the end of a simulator round.
Sleep ==
    /\ sim_wake' = now + SLEEP_SECONDS * TicksPerSecond
    /\ task_pc' = [task_pc EXCEPT !.sim = "sleep"]
    /\ UNCHANGED ing_replies

\* What follows `await broadcast_prediction(prediction)` in task t.
Broadcasted(t, prediction) ==
    IF t = "ingest"
    THEN Reply([type |-> "ack", inference_time_ms |-> prediction.inference_time_ms])
    ELSE Sleep

\* What follows a run_inference that returned None in task t.
Skipped(t) ==
    IF t = "ingest"
    THEN Reply([type |-> "ack", message |-> "Rate limited, prediction skipped"])
    ELSE Sleep

\* `prediction = await run_inference()` on the manager `self`, then
\* `if prediction: await broadcast_prediction(prediction)` up to its first
\* send_text (it returns at once when no client is connected).
Inference(t, self, engine_ok) ==
    LET r == run_inference(self, now, engine_ok)
        clients == r.self.connected_clients
        message == PredictionMessage(r.self, r.result)
    IN /\ call' = [by |-> t, gate |-> r.gate, before |-> self]
       /\ UNCHANGED fn
       /\ admitted' = IF r.gate = "rejected" THEN admitted ELSE Append(admitted, now)
       /\ produced' = IF r.gate = "predicted" THEN Append(produced, r.result)
                      ELSE produced
       /\ state_manager' = r.self
       /\ IF r.result = None
          THEN /\ Skipped(t)
               /\ UNCHANGED <<sent, bcast>>
          ELSE IF clients = <<>>
          THEN /\ Broadcasted(t, r.result)
               /\ UNCHANGED <<sent, bcast>>
          ELSE /\ sent' = [sent EXCEPT ![clients[1]] = Append(@, message)]
               /\ bcast' = [bcast EXCEPT ![t] =
                              [prediction |-> r.result, message |-> message,
                               client |-> clients[1],
                               ticket |-> Len(sent[clients[1]]) + 1,
                               index |-> 1, disconnected |-> <<>>,
                               members |-> clients]]
               /\ task_pc' = [task_pc EXCEPT ![t] = "broadcast"]
               /\ UNCHANGED <<ing_replies, sim_wake>>

\* A socket completes the sends handed to it in the order they were handed:
\* the send awaited by task t is not behind another broadcast's send to the
\* same client.
SendIsNext(t) ==
    \A u \in Tasks \ {t} :
        ~ /\ task_pc[u] = "broadcast"
          /\ bcast[u].client = bcast[t].client
          /\ bcast[u].ticket < bcast[t].ticket

\* The send_text awaited by broadcast_prediction in task t returns, or raises
\* when the client's peer is gone; the loop goes on to the next client of the
\* list as it is now, and after the last one runs the clean-up.
BroadcastSendDone(t) ==
    /\ task_pc[t] = "broadcast"
    /\ SendIsNext(t)
    /\ LET frame == bcast[t]
           disconnected == IF peer[frame.client] = "closed"
                           THEN Append(frame.disconnected, frame.client)
                           ELSE frame.disconnected
           clients == state_manager.connected_clients
           cleaned == CleanUp(clients, disconnected)
       IN IF HasNext(clients, frame.index)
          THEN /\ sent' = [sent EXCEPT ![clients[frame.index + 1]] =
                              Append(@, frame.message)]
               /\ bcast' = [bcast EXCEPT ![t] =
                              [frame EXCEPT !.client = clients[frame.index + 1],
                                            !.ticket = Len(sent[clients[frame.index + 1]]) + 1,
                                            !.index = frame.index + 1,
                                            !.disconnected = disconnected]]
               /\ UNCHANGED <<state_manager, task_pc, ing_replies, sim_wake>>
          ELSE /\ state_manager' =
                      [state_manager EXCEPT !.connected_clients = cleaned.clients]
               /\ bcast' = [bcast EXCEPT ![t] = NoFrame]
               /\ IF cleaned.raised THEN Raise(t)
                  ELSE Broadcasted(t, frame.prediction)
               /\ UNCHANGED sent
    /\ call' = NoCall /\ UNCHANGED fn
    /\ UNCHANGED <<now, manager, sub_pc, peer, ctl, ing_msgs, produced, admitted>>

\* One round of the ingest handler's loop: receive_text returns `m`.
IngestReceive(m, engine_ok) ==
    /\ task_pc.ingest = "receive"
    /\ Len(ing_msgs) < MaxMsgs
    /\ ing_msgs' = Append(ing_msgs, m)
    /\ UNCHANGED <<now, manager, sub_pc, peer, ctl>>
    /\ IF m.syntax = "invalid"
       THEN \* json.loads raises JSONDecodeError
            /\ Reply([type |-> "error", message |-> "Invalid JSON"])
            /\ call' = NoCall /\ UNCHANGED fn
            /\ UNCHANGED <<state_manager, sent, bcast, produced, admitted>>
       ELSE IF m.syntax # "object" \/ Get(m.payload, "domain", Str("")).t # "str"
       THEN \* payload.get or .lower() raises AttributeError
            /\ Raise("ingest")
            /\ call' = NoCall /\ UNCHANGED fn
            /\ UNCHANGED <<state_manager, sent, bcast, produced, admitted>>
       ELSE
         LET domain == Lower(Get(m.payload, "domain", Str("")).s)
             u == IF domain = "environmental"
                  THEN update_environmental(state_manager, m.payload, now)
                  ELSE IF domain = "health"
                  THEN update_health(state_manager, m.payload, now)
                  ELSE update_food(state_manager, m.payload, now)
         IN IF domain \notin Domains
            THEN /\ Reply([type |-> "error", message |-> "Unknown domain: " \o domain])
                 /\ call' = NoCall /\ UNCHANGED fn
                 /\ UNCHANGED <<state_manager, sent, bcast, produced, admitted>>
            ELSE IF u.changed
            THEN Inference("ingest", u.self, engine_ok)
            ELSE /\ Reply([type |-> "ack", message |-> "No change detected"])
                 /\ state_manager' = u.self
                 /\ call' = NoCall /\ UNCHANGED fn
                 /\ UNCHANGED <<sent, bcast, produced, admitted>>

\* The ingest handler's reply has been sent; it awaits the next message.
IngestReplyReturns ==
    /\ task_pc.ingest = "reply"
    /\ task_pc' = [task_pc EXCEPT !.ingest = "receive"]
    /\ call' = NoCall /\ UNCHANGED fn
    /\ UNCHANGED <<now, state_manager, manager, sub_pc, peer, sent, ctl, bcast,
                   ing_msgs, ing_replies, sim_wake, produced, admitted>>

\* One round of simulate_realtime_data: the environmental update, the health
\* and food updates when their draws say so, then the inference.
SimRound(health, food, engine_ok) ==
    /\ task_pc.sim = "sleep"
    /\ now >= sim_wake
    /\ LET s1 == update_environmental(state_manager, SimEnvData(now), now).self
           s2 == IF health THEN update_health(s1, SimHealthData(now), now).self ELSE s1
           s3 == IF food THEN update_food(s2, SimFoodData(now), now).self ELSE s2
       IN Inference("sim", s3, engine_ok)
    /\ UNCHANGED <<now, manager, sub_pc, peer, ctl, ing_msgs>>

\* The fan-out under a short horizon: subscribers connect, one of them pings
\* and leaves, while the ingest handler and the simulator produce and
\* broadcast predictions.  The clock moves by whole gate intervals.
Leavers == {"c1"}

Next ==
    \/ Tick(MaxTime, MinInterval)
    \/ \E c \in Clients : SubConnect(c)
    \/ \E c \in Clients : SubSendReturns(c)
    \/ \E c \in Leavers, exc \in {"WebSocketDisconnect", "Exception"} : SubSendRaises(c, exc)
    \/ \E c \in Leavers : SubControl(c, "ping")
    \/ \E c \in Leavers : PeerClose(c)
    \/ \E c \in Leavers : SubDisconnect(c)
    \/ \E m \in UpdateMessages : IngestReceive(m, TRUE)
    \/ IngestReplyReturns
    \/ SimRound(FALSE, FALSE, TRUE)
    \/ \E t \in Tasks : BroadcastSendDone(t)

Spec == Init /\ [][Next]_vars

\* The state manager under its callers, with every input, every draw of the
\* simulator and one subscriber that stays connected.
NextCallers ==
    \/ Tick(MaxCallersTime, 1)
    \/ SubConnect("c1")
    \/ SubSendReturns("c1")
    \/ \E m \in IngestMessages, engine_ok \in BOOLEAN : IngestReceive(m, engine_ok)
    \/ IngestReplyReturns
    \/ \E health, food, engine_ok \in BOOLEAN : SimRound(health, food, engine_ok)
    \/ \E t \in Tasks : BroadcastSendDone(t)

SpecCallers == Init /\ [][NextCallers]_vars

\* The simulator alone, round after round, until the rolling history has
\* overflowed: time passes only while the simulator sleeps.
HistHorizon ==
    MinInterval + (WINDOW_SIZE + MaxOverflow) * SLEEP_SECONDS * TicksPerSecond

NextHist ==
    \/ (now < sim_wake /\ Tick(HistHorizon, 1))
    \/ SimRound(FALSE, FALSE, TRUE)

SpecHist == Init /\ [][NextHist]_vars

(***************************************************************************)
(* The library functions applied to their inputs                           *)
(***************************************************************************)
\* Everything but fn: what a library function leaves alone.
server == <<now, state_manager, manager, sub_pc, peer, sent, ctl, task_pc, bcast,
            ing_msgs, ing_replies, sim_wake, produced, admitted, call>>

\* The metric bags the preprocessor is applied to: per field, the key absent,
\* null, a text that is no number, an infinity, a negative value, a value far
\* above the range, and values of the kinds the field documents.
Absent == [t |-> "absent"]

RawValues(field) ==
    {Absent, None, Str("abc"), Inf, Num(Hundredths(-5)), Num(Hundredths(100000))}
    \cup (IF field = "aqi" THEN {Num(Hundredths(150))}
          ELSE IF field = "traffic_density" THEN {Num(Hundredths(2)), Num(149)}
          ELSE IF field = "temperature" THEN {Num(Hundredths(25)), Num(30315)}
          ELSE IF field = "rainfall" THEN {Num(Hundredths(10))}
          ELSE IF field = "hospital_load" THEN {Num(65), Num(Hundredths(80))}
          ELSE IF field = "respiratory_cases" THEN {Num(Hundredths(450)), Num(45050)}
          ELSE IF field = "environmental_risk_prob" THEN {Num(30)}
          ELSE IF field = "crop_supply_index" THEN {Num(Hundredths(58))}
          ELSE IF field = "food_price_index" THEN {Num(Hundredths(135))}
          ELSE {Num(Hundredths(3))})

MetricBag(values) == [k \in {k \in DOMAIN values : values[k] # Absent} |-> values[k]]

PreprocessEnvironmental ==
    /\ fn = NoFn
    /\ \E aqi \in RawValues("aqi"), traffic_density \in RawValues("traffic_density"),
          temperature \in RawValues("temperature"), rainfall \in RawValues("rainfall") :
          LET metrics == MetricBag([aqi |-> aqi, traffic_density |-> traffic_density,
                                    temperature |-> temperature, rainfall |-> rainfall])
          IN fn' = [name |-> "preprocess_environmental_metrics", metrics |-> metrics,
                    out |-> preprocess_environmental_metrics(metrics)]
    /\ UNCHANGED server

PreprocessHealth ==
    /\ fn = NoFn
    /\ \E aqi \in RawValues("aqi"), hospital_load \in RawValues("hospital_load"),
          respiratory_cases \in RawValues("respiratory_cases"),
          temperature \in RawValues("temperature"),
          environmental_risk_prob \in RawValues("environmental_risk_prob") :
          LET metrics == MetricBag([aqi |-> aqi, hospital_load |-> hospital_load,
                                    respiratory_cases |-> respiratory_cases,
                                    temperature |-> temperature,
                                    environmental_risk_prob |-> environmental_risk_prob])
          IN fn' = [name |-> "preprocess_health_metrics", metrics |-> metrics,
                    out |-> preprocess_health_metrics(metrics)]
    /\ UNCHANGED server

PreprocessFood ==
    /\ fn = NoFn
    /\ \E crop_supply_index \in RawValues("crop_supply_index"),
          food_price_index \in RawValues("food_price_index"),
          rainfall \in RawValues("rainfall"), temperature \in RawValues("temperature"),
          supply_disruption_events \in RawValues("supply_disruption_events") :
          LET metrics == MetricBag([crop_supply_index |-> crop_supply_index,
                                    food_price_index |-> food_price_index,
                                    rainfall |-> rainfall, temperature |-> temperature,
                                    supply_disruption_events |-> supply_disruption_events])
          IN fn' = [name |-> "preprocess_food_metrics", metrics |-> metrics,
                    out |-> preprocess_food_metrics(metrics)]
    /\ UNCHANGED server

NextPreprocess ==
    \/ PreprocessEnvironmental
    \/ PreprocessHealth
    \/ PreprocessFood

SpecPreprocess == Init /\ [][NextPreprocess]_vars

(***************************************************************************)
(* The cascading engine applied to its inputs                              *)
(***************************************************************************)

\* The probabilities the functions are applied to.
Probs == {(100 * i) \div ProbGrid : i \in 0..ProbGrid}

ResilienceScore ==
    /\ fn = NoFn
    /\ \E env, health, food \in Probs :
           fn' = [name |-> "_calculate_resilience_score",
                  env_high_prob |-> env, health_high_prob |-> health,
                  food_high_prob |-> food,
                  out |-> calculate_resilience_score(env, health, food)]
    /\ UNCHANGED server

\* The engine's functions applied to every input of the grid.
\* What the trained classifiers may answer for one sample.
Answers ==
    {Answer("low", 80, 15, 5), Answer("medium", 20, 50, 30),
     Answer("high", 5, 15, 80), Answer("high", 2, 8, 90)}

\* predict_cascading_risks on a trained engine.
Cascade ==
    /\ fn = NoFn
    /\ \E aqi \in {Absent, Num(Hundredths(150)), Num(Hundredths(350))},
          crop_supply_index \in {Absent, Num(Hundredths(58)), Num(Hundredths(20))},
          environmental_risk_prob \in {Absent, Num(30)},
          env_result \in Answers, health_result \in Answers, food_result \in Answers :
          LET metrics == MetricBag([aqi |-> aqi, crop_supply_index |-> crop_supply_index,
                                    environmental_risk_prob |-> environmental_risk_prob])
          IN fn' = [name |-> "predict_cascading_risks", metrics |-> metrics,
                    env_result |-> env_result, health_result |-> health_result,
                    food_result |-> food_result,
                    out |-> cascade(metrics, env_result, health_result, food_result)]
    /\ UNCHANGED server

NextEngine ==
    \/ ResilienceScore
    \/ Cascade

SpecEngine == Init /\ [][NextEngine]_vars

(***************************************************************************)
(* Scenario delta engine (api/scenario_deltas.py and                       *)
(* api/scenario_interpreter.py).  A text is a sequence of characters;      *)
(* metrics, deltas and multipliers are in hundredths (a delta of +12 is    *)
(* 1200, the multiplier 1.5 is 150).  The description text and the         *)
(* timestamp of a result are left out.                                     *)
(***************************************************************************)
\* str.lower()
lower(text) ==
    LET upper == <<"A", "B", "C", "D", "E", "F", "G", "H", "I", "J", "K", "L", "M",
                   "N", "O", "P", "Q", "R", "S", "T", "U", "V", "W", "X", "Y", "Z">>
        lowered == <<"a", "b", "c", "d", "e", "f", "g", "h", "i", "j", "k", "l", "m",
                     "n", "o", "p", "q", "r", "s", "t", "u", "v", "w", "x", "y", "z">>
    IN [i \in 1..Len(text) |->
           IF \E u \in 1..Len(upper) : upper[u] = text[i]
           THEN lowered[CHOOSE u \in 1..Len(upper) : upper[u] = text[i]]
           ELSE text[i]]

\* kw in text
Contains(text, kw) ==
    \E i \in 0..(Len(text) - Len(kw)) : \A j \in 1..Len(kw) : text[i + j] = kw[j]

\* ScenarioDeltas.KEYWORDS, each table in the order the dict is written.
KEYWORDS ==
    [ primary_events |-> <<
        [name |-> "flood", keywords |->
                  { <<"f", "l", "o", "o", "d">>,
                    <<"f", "l", "o", "o", "d", "i", "n", "g">>,
                    <<"h", "e", "a", "v", "y", " ", "r", "a", "i", "n">>,
                    <<"m", "o", "n", "s", "o", "o", "n">>,
                    <<"w", "a", "t", "e", "r", "l", "o", "g", "g", "i", "n", "g">>,
                    <<"d", "e", "l", "u", "g", "e">> }],
        [name |-> "heatwave", keywords |->
                  { <<"h", "e", "a", "t", "w", "a", "v", "e">>, <<"h", "e", "a", "t">>,
                    <<"h", "o", "t">>,
                    <<"t", "e", "m", "p", "e", "r", "a", "t", "u", "r", "e", " ", "s", "p", "i", "k", "e">>,
                    <<"s", "c", "o", "r", "c", "h", "i", "n", "g">>, <<"s", "u", "n">> }],
        [name |-> "drought", keywords |->
                  { <<"d", "r", "o", "u", "g", "h", "t">>, <<"d", "r", "y">>,
                    <<"a", "r", "i", "d">>,
                    <<"w", "a", "t", "e", "r", " ", "s", "h", "o", "r", "t", "a", "g", "e">>,
                    <<"n", "o", " ", "r", "a", "i", "n">> }],
        [name |-> "pollution", keywords |->
                  { <<"p", "o", "l", "l", "u", "t", "i", "o", "n">>,
                    <<"s", "m", "o", "g">>, <<"a", "q", "i">>,
                    <<"a", "i", "r", " ", "q", "u", "a", "l", "i", "t", "y">>,
                    <<"h", "a", "z", "e">>, <<"t", "o", "x", "i", "c">> }],
        [name |-> "cyclone", keywords |->
                  { <<"c", "y", "c", "l", "o", "n", "e">>, <<"s", "t", "o", "r", "m">>,
                    <<"h", "u", "r", "r", "i", "c", "a", "n", "e">>,
                    <<"w", "i", "n", "d">>, <<"g", "a", "l", "e">> }] >>,
      severity |-> <<
        [name |-> "high", keywords |->
                  { <<"s", "e", "v", "e", "r", "e">>,
                    <<"e", "x", "t", "r", "e", "m", "e">>,
                    <<"c", "a", "t", "a", "s", "t", "r", "o", "p", "h", "i", "c">>,
                    <<"m", "a", "s", "s", "i", "v", "e">>,
                    <<"d", "e", "a", "d", "l", "y">>,
                    <<"c", "r", "i", "t", "i", "c", "a", "l">>,
                    <<"m", "a", "j", "o", "r">> }],
        [name |-> "low", keywords |->
                  { <<"m", "i", "l", "d">>, <<"m", "i", "n", "o", "r">>,
                    <<"s", "l", "i", "g", "h", "t">>, <<"s", "m", "a", "l", "l">>,
                    <<"l", "o", "w">> }],
        [name |-> "moderate", keywords |->
                  { <<"m", "o", "d", "e", "r", "a", "t", "e">>,
                    <<"m", "e", "d", "i", "u", "m">>,
                    <<"a", "v", "e", "r", "a", "g", "e">> }] >>,
      duration |-> <<
        [name |-> "prolonged", keywords |->
                  { <<"p", "r", "o", "l", "o", "n", "g", "e", "d">>,
                    <<"l", "o", "n", "g">>, <<"w", "e", "e", "k", "s">>,
                    <<"m", "o", "n", "t", "h">>,
                    <<"e", "x", "t", "e", "n", "d", "e", "d">>,
                    <<"c", "h", "r", "o", "n", "i", "c">>,
                    <<"p", "e", "r", "s", "i", "s", "t", "e", "n", "t">> }],
        [name |-> "short", keywords |->
                  { <<"s", "h", "o", "r", "t">>, <<"b", "r", "i", "e", "f">>,
                    <<"f", "l", "a", "s", "h">>, <<"s", "u", "d", "d", "e", "n">>,
                    <<"d", "a", "y">>, <<"h", "o", "u", "r">> }],
        [name |-> "moderate", keywords |->
                  { <<"m", "o", "d", "e", "r", "a", "t", "e">>,
                    <<"m", "e", "d", "i", "u", "m">> }] >>,
      secondary_impacts |-> <<
        [name |-> "transport_disruption", keywords |->
                  { <<"t", "r", "a", "f", "f", "i", "c">>,
                    <<"t", "r", "a", "n", "s", "p", "o", "r", "t">>,
                    <<"r", "o", "a", "d">>, <<"c", "o", "m", "m", "u", "t", "e">>,
                    <<"s", "t", "u", "c", "k">>, <<"j", "a", "m">> }],
        [name |-> "hospital_access_reduction", keywords |->
                  { <<"h", "o", "s", "p", "i", "t", "a", "l">>,
                    <<"m", "e", "d", "i", "c", "a", "l">>,
                    <<"a", "m", "b", "u", "l", "a", "n", "c", "e">>,
                    <<"h", "e", "a", "l", "t", "h">>, <<"a", "c", "c", "e", "s", "s">> }],
        [name |-> "power_outage", keywords |->
                  { <<"p", "o", "w", "e", "r">>,
                    <<"e", "l", "e", "c", "t", "r", "i", "c", "i", "t", "y">>,
                    <<"b", "l", "a", "c", "k", "o", "u", "t">>,
                    <<"o", "u", "t", "a", "g", "e">>, <<"l", "i", "g", "h", "t">> }],
        [name |-> "water_shortage", keywords |->
                  { <<"w", "a", "t", "e", "r", " ", "s", "u", "p", "p", "l", "y">>,
                    <<"d", "r", "y", " ", "t", "a", "p">>,
                    <<"d", "r", "i", "n", "k", "i", "n", "g", " ", "w", "a", "t", "e", "r">> }],
        [name |-> "food_supply_disruption", keywords |->
                  { <<"f", "o", "o", "d">>, <<"c", "r", "o", "p">>,
                    <<"s", "u", "p", "p", "l", "y">>, <<"m", "a", "r", "k", "e", "t">>,
                    <<"s", "h", "o", "r", "t", "a", "g", "e">> }] >> ]

\* ScenarioInterpreter.KEYWORDS: the same tables without power_outage and
\* water_shortage.
INTERPRETER_KEYWORDS ==
    [KEYWORDS EXCEPT !.secondary_impacts =
        SelectSeq(KEYWORDS.secondary_impacts,
                  LAMBDA row : row.name \notin {"power_outage", "water_shortage"})]

\* The names of the rows of a table one of whose keywords is in the text.
Matches(table, text) ==
    LET rows == SelectSeq(table, LAMBDA row :
                              \E kw \in row.keywords : Contains(text, kw))
    IN [i \in 1..Len(rows) |-> rows[i].name]

\* The first matching row's name, or the default.
FirstMatch(table, text, default) ==
    LET names == Matches(table, text)
    IN IF names = <<>> THEN default ELSE names[1]

ScenarioSignals(primary_events, duration, severity, secondary_impacts, confidence) ==
    [primary_events |-> primary_events, duration |-> duration, severity |-> severity,
     secondary_impacts |-> secondary_impacts, confidence |-> confidence]

Confidence(match_count) ==
    IF match_count >= 2 THEN "high" ELSE IF match_count = 1 THEN "medium" ELSE "low"

\* ScenarioDeltas.extract_scenario_signals
extract_scenario_signals(prompt) ==
    LET prompt_lower == lower(prompt)
        primary_events == Matches(KEYWORDS.primary_events, prompt_lower)
        severity == FirstMatch(KEYWORDS.severity, prompt_lower, "moderate")
        duration == FirstMatch(KEYWORDS.duration, prompt_lower, "moderate")
        secondary_impacts == Matches(KEYWORDS.secondary_impacts, prompt_lower)
        match_count == Len(primary_events) + Len(secondary_impacts)
                       + (IF severity # "moderate" THEN 1 ELSE 0)
    IN ScenarioSignals(IF primary_events # <<>> THEN primary_events ELSE <<"none">>,
                       duration, severity, secondary_impacts, Confidence(match_count))

\* ScenarioInterpreter.extract_signals
extract_signals(prompt) ==
    LET p == lower(prompt)
        events == Matches(INTERPRETER_KEYWORDS.primary_events, p)
        severity == FirstMatch(INTERPRETER_KEYWORDS.severity, p, "moderate")
        duration == FirstMatch(INTERPRETER_KEYWORDS.duration, p, "moderate")
        impacts == Matches(INTERPRETER_KEYWORDS.secondary_impacts, p)
        match_count == Len(events) + Len(impacts)
    IN ScenarioSignals(IF events # <<>> THEN events ELSE <<"none">>,
                       duration, severity, impacts, Confidence(match_count))

\* The severity and duration multipliers.
sev_mult(severity) ==
    IF severity = "low" THEN 50 ELSE IF severity = "high" THEN 150 ELSE 100

dur_mult_flat(duration) == 100
dur_mult(duration) ==
    IF duration = "short" THEN 80 ELSE IF duration = "prolonged" THEN 150 ELSE 100

Deltas(aqi, temperature, hospital_load, crop_supply) ==
    [aqi_delta |-> aqi, temperature_delta |-> temperature,
     hospital_load_delta |-> hospital_load, crop_supply_delta |-> crop_supply]

AddDeltas(a, b) ==
    Deltas(a.aqi_delta + b.aqi_delta, a.temperature_delta + b.temperature_delta,
           a.hospital_load_delta + b.hospital_load_delta,
           a.crop_supply_delta + b.crop_supply_delta)

RECURSIVE SumDeltas(_)
SumDeltas(rows) ==
    IF rows = <<>> THEN Deltas(0, 0, 0, 0)
    ELSE AddDeltas(SumDeltas(SubSeq(rows, 1, Len(rows) - 1)), rows[Len(rows)])

\* base * a * b for multipliers a and b in hundredths (a * b is a multiple
\* of 100 for every pair of multipliers above).
Times(base, a, b) == (base * a * b) \div 100

\* What get_deltas_from_signals adds for one primary event.
EventDeltas(primary, signals) ==
    LET s == sev_mult(signals.severity)
        d == dur_mult(signals.duration)
    IN IF primary = "flood"
         THEN Deltas(-10 * s, -4 * s, Times(12, s, d), Times(-8, s, d))
       ELSE IF primary = "heatwave"
         THEN Deltas(25 * s, 5 * (IF signals.severity = "high" THEN 120 ELSE 100),
                     Times(15, s, d), -10 * d)
       ELSE IF primary = "pollution"
         THEN Deltas(100 * s, Hundredths(1), 10 * s, Hundredths(-2))
       ELSE IF primary = "drought"
         THEN Deltas(15 * s, Hundredths(3), 8 * d, -25 * d)
       ELSE IF primary = "cyclone"
         THEN Deltas(-15 * s, Hundredths(-3), 20 * s, -15 * s)
       ELSE Deltas(0, 0, 0, 0)

\* ScenarioDeltas.get_deltas_from_signals (the second definition of that name
\* is the one the class keeps).
get_deltas_from_signals(signals) ==
    LET Has(impact) ==
            \E i \in 1..Len(signals.secondary_impacts) :
                signals.secondary_impacts[i] = impact
        active_events ==
            IF signals.primary_events # <<>> /\ signals.primary_events # <<"none">>
            THEN signals.primary_events ELSE <<>>
        events == SumDeltas([i \in 1..Len(active_events) |->
                                EventDeltas(active_events[i], signals)])
        transport ==
            IF Has("transport_disruption")
            THEN Deltas(0, 0, Hundredths(15), Hundredths(-5)) ELSE Deltas(0, 0, 0, 0)
        access ==
            IF Has("hospital_access_reduction")
            THEN Deltas(0, 0, Hundredths(25), 0) ELSE Deltas(0, 0, 0, 0)
        food ==
            IF Has("food_supply_disruption")
            THEN Deltas(0, 0, 0, Hundredths(-10)) ELSE Deltas(0, 0, 0, 0)
        deltas == AddDeltas(AddDeltas(AddDeltas(events, transport), access), food)
    IN [aqi_delta |-> deltas.aqi_delta, temperature_delta |-> deltas.temperature_delta,
        hospital_load_delta |-> deltas.hospital_load_delta,
        crop_supply_delta |-> deltas.crop_supply_delta, signals |-> signals]

\* scenario_interpreter.SCENARIO_CONFIG
SCENARIO_CONFIG ==
    [base_impacts |->
        [flood |-> [aqi |-> -10, temp |-> -4, hospital |-> 12, food |-> -8],
         heatwave |-> [aqi |-> 25, temp |-> 5, hospital |-> 15, food |-> -10],
         pollution |-> [aqi |-> 100, temp |-> 1, hospital |-> 10, food |-> -2],
         drought |-> [aqi |-> 15, temp |-> 3, hospital |-> 8, food |-> -25],
         cyclone |-> [aqi |-> -15, temp |-> -3, hospital |-> 20, food |-> -15]],
     secondary_impacts |->
        [transport_disruption |-> [hospital |-> 15, food |-> -5],
         hospital_access_reduction |-> [hospital |-> 25, food |-> 0],
         food_supply_disruption |-> [hospital |-> 0, food |-> -10]],
     multipliers |->
        [severity |-> [low |-> 50, moderate |-> 100, high |-> 150],
         duration |-> [short |-> 80, moderate |-> 100, prolonged |-> 150]],
     bounds |->
        [aqi |-> <<Hundredths(0), Hundredths(500)>>,
         temperature |-> <<Hundredths(-10), Hundredths(55)>>,
         hospital_load |-> <<Hundredths(0), Hundredths(100)>>,
         food_availability |-> <<Hundredths(10), Hundredths(100)>>]]

\* ScenarioSimulator.get_deltas
get_deltas(signals) ==
    LET s_mult == Get(SCENARIO_CONFIG.multipliers.severity, signals.severity, 100)
        d_mult == Get(SCENARIO_CONFIG.multipliers.duration, signals.duration, 100)
        active_events ==
            IF signals.primary_events # <<"none">> THEN signals.primary_events ELSE <<>>
        none == [aqi |-> 0, temp |-> 0, hospital |-> 0, food |-> 0]
        Event(event) ==
            LET base == Get(SCENARIO_CONFIG.base_impacts, event, none)
            IN Deltas(base.aqi * s_mult,
                      base.temp * (IF signals.severity = "high" /\ event = "heatwave"
                                   THEN 120 ELSE 100),
                      Times(base.hospital, s_mult, d_mult),
                      Times(base.food, s_mult, d_mult))
        Impact(impact) ==
            LET base == Get(SCENARIO_CONFIG.secondary_impacts, impact,
                            [hospital |-> 0, food |-> 0])
            IN Deltas(0, 0, Hundredths(base.hospital), Hundredths(base.food))
        deltas ==
            AddDeltas(SumDeltas([i \in 1..Len(active_events) |-> Event(active_events[i])]),
                      SumDeltas([i \in 1..Len(signals.secondary_impacts) |->
                                    Impact(signals.secondary_impacts[i])]))
    IN [aqi_delta |-> deltas.aqi_delta, temperature_delta |-> deltas.temperature_delta,
        hospital_load_delta |-> deltas.hospital_load_delta,
        crop_supply_delta |-> deltas.crop_supply_delta, signals |-> signals]

\* max(lo, min(hi, val))
clamp_above(lo, hi, val) == Min(hi, val)
clamp(lo, hi, val) == Max(lo, Min(hi, val))

\* ScenarioDeltas.apply_deltas_to_baseline
apply_deltas_to_baseline(baseline, deltas) ==
    LET base_aqi == Get(baseline, "aqi", Hundredths(100))
        delta_aqi == Get(deltas, "aqi_delta", 0)
        aqi == clamp(Hundredths(0), Hundredths(500), base_aqi + delta_aqi)
        base_temp == Get(baseline, "temperature", Hundredths(25))
        delta_temp == Get(deltas, "temperature_delta", 0)
        temperature == clamp(Hundredths(-10), Hundredths(55), base_temp + delta_temp)
        base_hosp == Get(baseline, "hospital_load", Hundredths(50))
        delta_hosp == Get(deltas, "hospital_load_delta", 0)
        simulated_hosp == clamp(Hundredths(0), Hundredths(100), base_hosp + delta_hosp)
        base_crop == Get(baseline, "crop_supply", Hundredths(70))
        delta_crop == Get(deltas, "crop_supply_delta", 0)
        crop_supply == clamp(Hundredths(10), Hundredths(100), base_crop + delta_crop)
    IN [aqi |-> aqi, temperature |-> temperature, hospital_load |-> simulated_hosp,
        crop_supply |-> crop_supply,
        deltas_applied |->
            [aqi |-> [baseline |-> base_aqi, delta |-> delta_aqi, final |-> aqi],
             temperature |-> [baseline |-> base_temp, delta |-> delta_temp,
                              final |-> temperature],
             hospital_load |-> [baseline |-> base_hosp, delta |-> delta_hosp,
                                final |-> simulated_hosp],
             crop_supply |-> [baseline |-> base_crop, delta |-> delta_crop,
                              final |-> crop_supply]]]

\* ScenarioSimulator.apply_to_baseline
apply_to_baseline(baseline, deltas) ==
    LET b == SCENARIO_CONFIG.bounds
        Sim(bound, field, default, delta) ==
            clamp(b[bound][1], b[bound][2],
                  Get(baseline, field, default) + Get(deltas, delta, 0))
    IN [aqi |-> Sim("aqi", "aqi", Hundredths(100), "aqi_delta"),
        temperature |-> Sim("temperature", "temperature", Hundredths(25),
                            "temperature_delta"),
        hospital_load |-> Sim("hospital_load", "hospital_load", Hundredths(50),
                              "hospital_load_delta"),
        crop_supply |-> Sim("food_availability", "crop_supply", Hundredths(70),
                            "crop_supply_delta")]

\* An optional dict argument and an optional text argument.
Dict(d) == [t |-> "dict", d |-> d]
Text(chars) == [t |-> "text", chars |-> chars]

\* `if custom_deltas:` and `elif custom_prompt:`: None and the empty value
\* are false.
TruthyDict(x) == x # None /\ DOMAIN x.d # {}
TruthyText(x) == x # None /\ x.chars # <<>>

\* The branch run_delta_simulation takes.
source_of_prompt_first(scenario_type, custom_prompt, custom_deltas) ==
    IF TruthyText(custom_prompt) THEN "prompt_inference"
    ELSE IF TruthyDict(custom_deltas) THEN "custom"
    ELSE IF Truthy(scenario_type) THEN "preset"
    ELSE "default"

source_of(scenario_type, custom_prompt, custom_deltas) ==
    IF TruthyDict(custom_deltas) THEN "custom"
    ELSE IF TruthyText(custom_prompt) THEN "prompt_inference"
    ELSE IF Truthy(scenario_type) THEN "preset"
    ELSE "default"

\* The signals of a preset: events names the preset identifiers that are
\* primary events.
PresetSignals(scenario_type, events) ==
    ScenarioSignals(<<IF scenario_type \in events THEN scenario_type ELSE "none">>,
                    "short",
                    IF scenario_type = "crisis" THEN "high" ELSE "moderate",
                    IF scenario_type = "crisis"
                    THEN <<"transport_disruption", "hospital_access_reduction">>
                    ELSE <<>>,
                    "high")

DefaultSignals == ScenarioSignals(<<"none">>, "moderate", "moderate", <<>>, "high")

run_delta_simulation(baseline_metrics, scenario_type, custom_prompt, custom_deltas) ==
    LET source == source_of(scenario_type, custom_prompt, custom_deltas)
        signals ==
            IF source = "custom" THEN None
            ELSE IF source = "prompt_inference"
                 THEN extract_scenario_signals(custom_prompt.chars)
            ELSE IF source = "preset"
                 THEN PresetSignals(scenario_type.s,
                                    {KEYWORDS.primary_events[i].name :
                                        i \in 1..Len(KEYWORDS.primary_events)})
            ELSE DefaultSignals
        deltas == IF source = "custom" THEN custom_deltas.d
                  ELSE get_deltas_from_signals(signals)
        simulated == apply_deltas_to_baseline(baseline_metrics, deltas)
        data_freshness == Get(baseline_metrics, "data_freshness", "")
    IN [baseline |-> baseline_metrics,
        deltas |->
            [aqi_delta |-> Get(deltas, "aqi_delta", 0),
             temperature_delta |-> Get(deltas, "temperature_delta", 0),
             hospital_load_delta |-> Get(deltas, "hospital_load_delta", 0),
             crop_supply_delta |-> Get(deltas, "crop_supply_delta", 0),
             source |-> source,
             inferred_scenario |->
                 IF source = "prompt_inference" THEN Str(signals.primary_events[1])
                 ELSE IF source = "preset" THEN scenario_type
                 ELSE None,
             signals |-> signals,
             inference_confidence |->
                 IF source = "prompt_inference"
                 THEN Num(IF signals.confidence = "high" THEN 90 ELSE 50)
                 ELSE IF source = "preset" THEN Num(100)
                 ELSE None],
        simulated |-> simulated,
        validation |->
            [used_live_data |-> data_freshness \in {"live", "recent"},
             fallback_used |-> data_freshness \notin {"live", "recent"},
             deltas_applied |-> TRUE, ml_executed |-> FALSE]]

\* scenario_interpreter.run_simulation_pipeline
run_simulation_pipeline(baseline, custom_prompt, scenario_type) ==
    LET source == IF TruthyText(custom_prompt) THEN "prompt_inference"
                  ELSE IF Truthy(scenario_type) THEN "preset"
                  ELSE "default"
        signals ==
            IF source = "prompt_inference" THEN extract_signals(custom_prompt.chars)
            ELSE IF source = "preset"
                 THEN PresetSignals(scenario_type.s, DOMAIN SCENARIO_CONFIG.base_impacts)
            ELSE DefaultSignals
        deltas == get_deltas(signals)
    IN [baseline |-> baseline,
        deltas |-> [aqi_delta |-> deltas.aqi_delta,
                    temperature_delta |-> deltas.temperature_delta,
                    hospital_load_delta |-> deltas.hospital_load_delta,
                    crop_supply_delta |-> deltas.crop_supply_delta,
                    signals |-> signals, source |-> source],
        simulated |-> apply_to_baseline(baseline, deltas)]

(***************************************************************************)
(* The scenario delta engine applied to its inputs                         *)
(***************************************************************************)
\* "prolonged monsoon flooding that disrupts transport and hospital access"
PromptMonsoon ==
    <<"p", "r", "o", "l", "o", "n", "g", "e", "d", " ", "m", "o", "n", "s",
      "o", "o", "n", " ", "f", "l", "o", "o", "d", "i", "n", "g", " ", "t",
      "h", "a", "t", " ", "d", "i", "s", "r", "u", "p", "t", "s", " ", "t",
      "r", "a", "n", "s", "p", "o", "r", "t", " ", "a", "n", "d", " ", "h",
      "o", "s", "p", "i", "t", "a", "l", " ", "a", "c", "c", "e", "s", "s">>

\* The prompts: the end-to-end scenario's, the five of verify_weights.py,
\* "severe cyclone", "a slow day", "nothing" and the empty text.
Prompts ==
    { PromptMonsoon,
      \* "Moderate flood"
      <<"M", "o", "d", "e", "r", "a", "t", "e", " ", "f", "l", "o", "o", "d">>,
      \* "Flood disrupting transport"
      <<"F", "l", "o", "o", "d", " ", "d", "i", "s", "r", "u", "p", "t", "i",
        "n", "g", " ", "t", "r", "a", "n", "s", "p", "o", "r", "t">>,
      \* "Flood reducing hospital access"
      <<"F", "l", "o", "o", "d", " ", "r", "e", "d", "u", "c", "i", "n", "g",
        " ", "h", "o", "s", "p", "i", "t", "a", "l", " ", "a", "c", "c", "e",
        "s", "s">>,
      \* "Prolonged drought"
      <<"P", "r", "o", "l", "o", "n", "g", "e", "d", " ", "d", "r", "o", "u",
        "g", "h", "t">>,
      \* "Heatwave causing high pollution"
      <<"H", "e", "a", "t", "w", "a", "v", "e", " ", "c", "a", "u", "s", "i",
        "n", "g", " ", "h", "i", "g", "h", " ", "p", "o", "l", "l", "u", "t",
        "i", "o", "n">>,
      \* "severe cyclone"
      <<"s", "e", "v", "e", "r", "e", " ", "c", "y", "c", "l", "o", "n", "e">>,
      \* "a slow day"
      <<"a", " ", "s", "l", "o", "w", " ", "d", "a", "y">>,
      \* "nothing"
      <<"n", "o", "t", "h", "i", "n", "g">>,
      <<>> }


\* ScenarioSignals values: no event, each event alone, two events together,
\* with every severity and duration and the secondary impacts alone and in
\* pairs.
SignalsInputs ==
    {ScenarioSignals(primary_events, duration, severity, secondary_impacts, "high") :
        primary_events \in {<<"none">>, <<"flood">>, <<"heatwave">>, <<"pollution">>,
                            <<"drought">>, <<"cyclone">>, <<"flood", "heatwave">>,
                            <<"heatwave", "pollution">>},
        duration \in {"short", "moderate", "prolonged"},
        severity \in {"low", "moderate", "high"},
        secondary_impacts \in {<<>>, <<"transport_disruption">>,
                               <<"hospital_access_reduction">>,
                               <<"food_supply_disruption">>, <<"power_outage">>,
                               <<"transport_disruption", "hospital_access_reduction">>}}

\* A dict of the given keys, without those whose value is Absent.
NumberBag(values) ==
    [k \in {k \in DOMAIN values : values[k] # Absent} |-> values[k].v]

\* Baselines: each field missing, at the low end, in the middle and at the
\* high end of its range.
Baselines ==
    {NumberBag([aqi |-> aqi, temperature |-> temperature,
                hospital_load |-> hospital_load, crop_supply |-> crop_supply]) :
        aqi \in {Absent, Num(Hundredths(0)), Num(Hundredths(150)), Num(Hundredths(495))},
        temperature \in {Absent, Num(Hundredths(-8)), Num(Hundredths(30))},
        hospital_load \in {Absent, Num(Hundredths(50)), Num(Hundredths(98))},
        crop_supply \in {Absent, Num(Hundredths(12)), Num(Hundredths(70))}}

\* Delta sets: each delta missing, far below, slightly off, and far above.
DeltaSets ==
    {NumberBag([aqi_delta |-> aqi, temperature_delta |-> temperature,
                hospital_load_delta |-> hospital_load, crop_supply_delta |-> crop_supply]) :
        aqi \in {Absent, Num(Hundredths(-600)), Num(Hundredths(100))},
        temperature \in {Absent, Num(Hundredths(-70)), Num(Hundredths(50))},
        hospital_load \in {Absent, Num(Hundredths(-120)), Num(Hundredths(58))},
        crop_supply \in {Absent, Num(Hundredths(-90)), Num(Hundredths(40))}}

\* The baseline of the end-to-end scenario, fetched live.
BaselineLive ==
    [aqi |-> Hundredths(150), temperature |-> Hundredths(30),
     hospital_load |-> Hundredths(50), crop_supply |-> Hundredths(70),
     data_freshness |-> "live"]

RequestBaselines ==
    {BaselineLive, [BaselineLive EXCEPT !.data_freshness = "estimated",
                                        !.hospital_load = Hundredths(95),
                                        !.crop_supply = Hundredths(15)]}

ScenarioTypes ==
    {None, Str(""), Str("flood"), Str("heatwave"), Str("drought"), Str("crisis"),
     Str("pollution_spike")}

CustomPrompts == {None} \cup {Text(prompt) : prompt \in Prompts}

CustomDeltas ==
    {None, Dict(<<>>), Dict([hospital_load_delta |-> Hundredths(20)]),
     Dict([aqi_delta |-> Hundredths(400), temperature_delta |-> Hundredths(-50),
           hospital_load_delta |-> Hundredths(-80), crop_supply_delta |-> Hundredths(-75)]),
     Dict([aqi_delta |-> 0, temperature_delta |-> 0, hospital_load_delta |-> 0,
           crop_supply_delta |-> 0])}

ExtractScenarioSignals ==
    /\ fn = NoFn
    /\ \E prompt \in Prompts :
          fn' = [name |-> "extract_scenario_signals", prompt |-> prompt,
                 out |-> extract_scenario_signals(prompt)]
    /\ UNCHANGED server

ExtractSignals ==
    /\ fn = NoFn
    /\ \E prompt \in Prompts :
          fn' = [name |-> "extract_signals", prompt |-> prompt,
                 out |-> extract_signals(prompt)]
    /\ UNCHANGED server

GetDeltasFromSignals ==
    /\ fn = NoFn
    /\ \E signals \in SignalsInputs :
          fn' = [name |-> "get_deltas_from_signals", signals |-> signals,
                 out |-> get_deltas_from_signals(signals)]
    /\ UNCHANGED server

GetDeltas ==
    /\ fn = NoFn
    /\ \E signals \in SignalsInputs :
          fn' = [name |-> "get_deltas", signals |-> signals, out |-> get_deltas(signals)]
    /\ UNCHANGED server

ApplyDeltasToBaseline ==
    /\ fn = NoFn
    /\ \E baseline \in Baselines, deltas \in DeltaSets :
          fn' = [name |-> "apply_deltas_to_baseline", baseline |-> baseline,
                 deltas |-> deltas, out |-> apply_deltas_to_baseline(baseline, deltas)]
    /\ UNCHANGED server

ApplyToBaseline ==
    /\ fn = NoFn
    /\ \E baseline \in Baselines, deltas \in DeltaSets :
          fn' = [name |-> "apply_to_baseline", baseline |-> baseline,
                 deltas |-> deltas, out |-> apply_to_baseline(baseline, deltas)]
    /\ UNCHANGED server

RunDeltaSimulation ==
    /\ fn = NoFn
    /\ \E baseline_metrics \in RequestBaselines, scenario_type \in ScenarioTypes,
          custom_prompt \in CustomPrompts, custom_deltas \in CustomDeltas :
          fn' = [name |-> "run_delta_simulation", baseline_metrics |-> baseline_metrics,
                 scenario_type |-> scenario_type, custom_prompt |-> custom_prompt,
                 custom_deltas |-> custom_deltas,
                 out |-> run_delta_simulation(baseline_metrics, scenario_type,
                                              custom_prompt, custom_deltas)]
    /\ UNCHANGED server

RunSimulationPipeline ==
    /\ fn = NoFn
    /\ \E baseline \in RequestBaselines, custom_prompt \in CustomPrompts,
          scenario_type \in ScenarioTypes :
          fn' = [name |-> "run_simulation_pipeline", baseline |-> baseline,
                 custom_prompt |-> custom_prompt, scenario_type |-> scenario_type,
                 out |-> run_simulation_pipeline(baseline, custom_prompt, scenario_type)]
    /\ UNCHANGED server

NextScenario ==
    \/ ExtractScenarioSignals
    \/ ExtractSignals
    \/ GetDeltasFromSignals
    \/ GetDeltas
    \/ ApplyDeltasToBaseline
    \/ ApplyToBaseline
    \/ RunDeltaSimulation
    \/ RunSimulationPipeline

SpecScenario == Init /\ [][NextScenario]_vars

(***************************************************************************)
(* The state manager's updates and reads applied to their inputs           *)
(***************************************************************************)
\* The update dicts of a domain: each field absent, null, 0 or a usual
\* value; the timestamp absent, null or given.
UpdateData(domain) ==
    IF domain = "environmental"
    THEN {MetricBag([aqi |-> aqi, temperature |-> temperature, timestamp |-> timestamp]) :
              aqi \in {Absent, None, Num(0), Num(150)},
              temperature \in {Absent, Num(28)},
              timestamp \in {Absent, None, DateTime(1)}}
    ELSE IF domain = "health"
    THEN {MetricBag([hospital_load |-> hospital_load,
                     respiratory_cases |-> respiratory_cases, aqi |-> aqi]) :
              hospital_load \in {Absent, None, Num(0), Num(80)},
              respiratory_cases \in {Absent, Num(120)},
              aqi \in {Absent, Num(150)}}
    ELSE {MetricBag([supply_index |-> supply_index, price_volatility |-> price_volatility]) :
              supply_index \in {Absent, Num(0), Num(40)},
              price_volatility \in {Absent, None, Num(0)}}

\* update_environmental, update_health or update_food on one dict.
Update ==
    /\ \E domain \in Domains : \E data \in UpdateData(domain) :
          LET u == IF domain = "environmental"
                   THEN update_environmental(state_manager, data, now)
                   ELSE IF domain = "health"
                   THEN update_health(state_manager, data, now)
                   ELSE update_food(state_manager, data, now)
          IN /\ state_manager' = u.self
             /\ fn' = [name |-> "update", domain |-> domain, data |-> data,
                       before |-> state_manager, changed |-> u.changed]
    /\ UNCHANGED <<now, manager, sub_pc, peer, sent, ctl, task_pc, bcast, ing_msgs,
                   ing_replies, sim_wake, produced, admitted, call>>

GetMergedState ==
    /\ fn' = [name |-> "get_merged_state", out |-> get_merged_state(state_manager)]
    /\ UNCHANGED server

NextState ==
    \/ Update
    \/ GetMergedState

SpecState == Init /\ [][NextState]_vars

(***************************************************************************)
(* Properties                                                              *)
(***************************************************************************)
Last(s) == s[Len(s)]

\* C1: the rolling history never holds more than WINDOW_SIZE records and is
\* always the most recent (at most WINDOW_SIZE) of the records appended so
\* far, in the order they were appended.
C1_HistoryIsRecentWindow ==
    LET history == state_manager.prediction_history
        n == Len(produced)
        k == Min(n, WINDOW_SIZE)
    IN /\ Len(history) <= WINDOW_SIZE
       /\ history = SubSeq(produced, n - k + 1, n)

\* A full history has been appended to and has dropped its oldest records.
C1_Witness ==
    /\ Len(produced) > WINDOW_SIZE + 1
    /\ Len(state_manager.prediction_history) = WINDOW_SIZE

\* C2: in any window of one second, [t, t + 1 s), at most MAX_INFERENCE_RATE
\* calls of run_inference pass the rate gate, whoever makes them.
C2_RateGate ==
    \A t \in 0..MaxCallersTime :
        Cardinality({i \in 1..Len(admitted) :
                        t <= admitted[i] /\ admitted[i] < t + TicksPerSecond})
            <= MAX_INFERENCE_RATE

\* Two calls passed the gate within one second, both callers among them, and
\* a further call has just been turned away.
C2_Witness ==
    /\ Len(admitted) >= MAX_INFERENCE_RATE
    /\ Last(admitted) - admitted[Len(admitted) - 1] < TicksPerSecond
    /\ call.gate = "rejected"
    /\ Len(ing_msgs) > 0
    /\ task_pc.sim = "sleep" /\ sim_wake > MinInterval

\* C10: a run_inference call the rate gate rejects returns no prediction and
\* leaves the history, the latest prediction, the gate's timestamp and the
\* three slots as they were when it was called, and starts no broadcast;
\* the history, the latest prediction and the gate's timestamp change only
\* in a step whose call passed the gate.
C10_RejectedCallChangesNothing ==
    [][ /\ call'.gate = "rejected" =>
              /\ state_manager' = call'.before
              /\ produced' = produced
              /\ admitted' = admitted
              /\ bcast' = bcast
              /\ sent' = sent
              /\ task_pc'[call'.by] # "broadcast"
        /\ ( \/ state_manager'.prediction_history # state_manager.prediction_history
             \/ state_manager'.latest_prediction # state_manager.latest_prediction
             \/ state_manager'.last_inference_time # state_manager.last_inference_time
             \/ bcast' # bcast /\ \E t \in Tasks : bcast[t] = NoFrame /\ bcast'[t] # NoFrame )
           => call'.gate \in {"predicted", "failed"} ]_vars

\* A call was rejected less than the minimum interval after an admitted one
\* that produced a prediction, with a subscriber connected.
C10_Witness ==
    /\ call.gate = "rejected"
    /\ now - state_manager.last_inference_time < MinInterval
    /\ state_manager.prediction_history # <<>>
    /\ state_manager.connected_clients # <<>>

\* The broadcast of task t returns or raises in this step.
BroadcastEnds(t) == task_pc[t] = "broadcast" /\ task_pc'[t] # "broadcast"

\* The clients whose send_text raised during the broadcast of task t that is
\* about to end.
FailedClients(t) ==
    {bcast[t].disconnected[i] : i \in 1..Len(bcast[t].disconnected)}
        \cup {c \in {bcast[t].client} : peer[c] = "closed"}

\* The clients that were connected from the start of task t's broadcast to
\* the end of its loop.
MembersThroughout(t) ==
    {c \in Clients : /\ InList(bcast[t].members, c)
                     /\ InList(state_manager.connected_clients, c)}

Count(s, x) == Cardinality({i \in 1..Len(s) : s[i] = x})

Pos(data) == CHOOSE k \in 1..Len(produced) : PredictionData(produced[k]) = data

\* C3: a subscriber is sent its prediction messages in the order in which
\* the predictions were appended to the rolling history.
C3_PerSubscriberOrder ==
    \A c \in Clients : \A i, j \in 1..Len(sent[c]) :
        (i < j /\ sent[c][i].type = "prediction" /\ sent[c][j].type = "prediction")
            => Pos(sent[c][i].data) <= Pos(sent[c][j].data)

\* C4: when a send to a subscriber fails during a broadcast, the broadcast
\* returns without raising, every subscriber whose send failed is out of
\* connected_clients afterwards, and the ingest handler that broadcast goes
\* on to send its acknowledgement.
C4_FailureIsConfined ==
    [][ \A t \in Tasks : (BroadcastEnds(t) /\ FailedClients(t) # {}) =>
            /\ task_pc'[t] # "raised"
            /\ \A c \in FailedClients(t) :
                   ~InList(state_manager'.connected_clients, c)
            /\ t = "ingest" =>
                   /\ task_pc'.ingest = "reply"
                   /\ Len(ing_replies') = Len(ing_replies) + 1
                   /\ Last(ing_replies').type = "ack" ]_vars

\* C5: a broadcast sends its prediction exactly once to every subscriber that
\* was connected from its start to its end, whatever the other subscribers do.
C5_DeliveredExactlyOnce ==
    [][ \A t \in Tasks : BroadcastEnds(t) =>
            \A c \in MembersThroughout(t) :
                Count(sent'[c], bcast[t].message) = 1 ]_vars

\* C6: a subscriber whose handler has ended is in neither registry, and
\* nothing is sent to a handle that is not in both registries.
C6_EndedSubscriberIsRemoved ==
    [][ \A c \in Clients :
            /\ sub_pc'[c] \in {"closed", "raised"} =>
                   /\ ~InList(manager'.active_connections, c)
                   /\ ~InList(state_manager'.connected_clients, c)
            /\ sent'[c] # sent[c] =>
                   /\ InList(manager'.active_connections, c)
                   /\ InList(state_manager'.connected_clients, c) ]_vars

\* C7: the first message sent to a subscriber is the init snapshot, and every
\* prediction broadcast while it is subscribed is sent to it.
C7_SnapshotThenPredictions ==
    [][ /\ \A c \in Clients : sent'[c] # <<>> => sent'[c][1].type = "init"
        /\ \A t \in Tasks : BroadcastEnds(t) =>
               \A c \in MembersThroughout(t) :
                   Count(sent'[c], bcast[t].message) >= 1 ]_vars

\* A message the ingestion channel calls malformed: not valid JSON, not a
\* JSON object, or a domain that names none of the three slots.
Malformed(m) ==
    \/ m.syntax # "object"
    \/ Get(m.payload, "domain", Str("")).t # "str"
    \/ Lower(Get(m.payload, "domain", Str("")).s) \notin Domains

\* The ingest handler passes exactly one reply, of the given type, to
\* send_text in this step.
Replies(type) ==
    /\ Len(ing_replies') = Len(ing_replies) + 1
    /\ Last(ing_replies').type = type
    /\ task_pc'.ingest = "reply"

\* C8: every message received on the ingestion channel gets exactly one
\* reply, after which the handler receives again: an error when the message
\* is malformed, leaving the state manager as it was, and an ack otherwise
\* (at once, or when the broadcast it started has returned).
C8_OneReplyPerMessage ==
    [][ /\ ing_msgs' # ing_msgs =>
              /\ Malformed(Last(ing_msgs')) =>
                     /\ Replies("error")
                     /\ state_manager' = state_manager
              /\ ~Malformed(Last(ing_msgs')) =>
                     \/ Replies("ack")
                     \/ task_pc'.ingest = "broadcast" /\ ing_replies' = ing_replies
        /\ BroadcastEnds("ingest") => Replies("ack")
        /\ task_pc'.ingest = "receive" => Len(ing_replies') = Len(ing_msgs') ]_vars

RateLimitedAck == [type |-> "ack", message |-> "Rate limited, prediction skipped"]

\* C9: the ingest handler's ack says "rate limited" exactly when the rate
\* gate rejected the inference the update triggered; an admitted inference
\* that produced a prediction is acknowledged with its inference_time_ms.
C9_AckCarriesGateDecision ==
    [][ /\ (Len(ing_replies') > Len(ing_replies) /\ Last(ing_replies') = RateLimitedAck)
               <=> (call'.by = "ingest" /\ call'.gate = "rejected")
        /\ (call'.by = "ingest" /\ call'.gate = "predicted") =>
               \/ task_pc'.ingest = "broadcast"
               \/ Replies("ack") /\ "inference_time_ms" \in DOMAIN Last(ing_replies') ]_vars

\* C11: the record run_inference appends carries, for each domain, the risk
\* level and the probability of high that predict_cascading_risks returned
\* for the merged state of that moment, and its confidence is the
\* data-freshness confidence.
C11_RecordCarriesEngineResult ==
    [][ call'.gate = "predicted" =>
            LET record == Last(produced')
                result == predict_cascading_risks(get_merged_state(state_manager'))
            IN /\ record.environmental_risk = result.environmental.risk
               /\ record.environmental_prob = result.environmental.prob
               /\ record.health_risk = result.health.risk
               /\ record.health_prob = result.health.prob
               /\ record.food_security_risk = result.food_security.risk
               /\ record.food_security_prob = result.food_security.prob
               /\ record.confidence = get_confidence(state_manager', now).value ]_vars

\* C12: the resilience score is 100 * (1 - 0.35 P_env - 0.40 P_health
\* - 0.25 P_food) rounded to the nearest integer and clamped to [0, 100].
C12_ResilienceIsRounded ==
    fn.name = "_calculate_resilience_score" =>
        fn.out = Max(0, Min(100,
                     Round(100 * 100 - (35 * fn.env_high_prob + 40 * fn.health_high_prob
                                        + 25 * fn.food_high_prob), 100)))

\* The documented range of each preprocessed field, in hundredths.
DocumentedRange ==
    [aqi |-> <<0, 50000>>, traffic_density |-> <<0, 200>>,
     temperature |-> <<0, 5000>>, rainfall |-> <<0, 20000>>,
     hospital_load |-> <<0, 100>>, respiratory_cases |-> <<0, 1000000>>,
     environmental_risk_prob |-> <<0, 100>>, crop_supply_index |-> <<0, 10000>>,
     food_price_index |-> <<5000, 20000>>, supply_disruption_events |-> <<0, 1000>>]

IsPreprocess == fn.name \in {"preprocess_environmental_metrics",
                             "preprocess_health_metrics", "preprocess_food_metrics"}

\* C15: for every metric bag the preprocessor returns without raising and
\* every field it emits lies in its documented range (traffic_density a whole
\* number).
C15_PreprocessorTotalAndBounded ==
    IsPreprocess =>
        /\ ~fn.out.raised
        /\ \A k \in DOMAIN fn.out.processed :
               /\ DocumentedRange[k][1] <= fn.out.processed[k]
               /\ fn.out.processed[k] <= DocumentedRange[k][2]
               /\ k = "traffic_density" => fn.out.processed[k] % 100 = 0

\* C16: every field whose emitted value is not the supplied one (a default
\* was substituted, a unit converted, the value clipped) has an entry in the
\* assumptions list.
C16_EveryChangeIsListed ==
    (IsPreprocess /\ ~fn.out.raised) =>
        \A k \in DOMAIN fn.out.processed :
            Get(fn.metrics, k, None) # Num(fn.out.processed[k]) =>
                \E i \in 1..Len(fn.out.assumptions) : fn.out.assumptions[i].field = k

IsCascade == fn.name = "predict_cascading_risks" /\ ~fn.out.raised

\* C13: the value reported as cascading_effect.env_risk_injected_to_health is
\* the environmental probability of high of the same prediction, and it is the
\* environmental_risk_prob feature (the fifth) of the vector the health
\* classifier is asked with; it comes from the environmental classifier's
\* answer, whatever the caller supplied under that key.
C13_EnvRiskInjectedIntoHealth ==
    IsCascade =>
        /\ fn.out.result.cascading_effect.env_risk_injected_to_health
               = fn.out.result.environmental.prob
        /\ fn.out.X_health[5] = fn.out.result.environmental.prob
        /\ fn.out.X_health[5] = fn.env_result.probabilities.high

C13_Witness ==
    /\ IsCascade
    /\ "environmental_risk_prob" \in DOMAIN fn.metrics
    /\ fn.env_result.probabilities.high = 90
    /\ fn.out.X_health[5] = 90

\* C14: for aqi above 300 the cascading inference answers the pinned
\* environmental distribution (low 0.02, medium 0.08, high 0.90) with risk
\* high, and for a crop supply below 30 it answers food risk high, whatever
\* the classifiers output.
C14_ThresholdOverride ==
    IsCascade =>
        /\ (Get(fn.metrics, "aqi", Num(0)).v > Hundredths(300) =>
               /\ fn.out.result.environmental.risk = "high"
               /\ fn.out.result.environmental.probabilities
                      = [low |-> 2, medium |-> 8, high |-> 90])
        /\ (Get(fn.metrics, "crop_supply_index", Num(Hundredths(100))).v < Hundredths(30) =>
               fn.out.result.food_security.risk = "high")

\* C17: whatever the baseline and the deltas, the simulated aqi is in
\* [0, 500], the temperature in [-10, 55], the hospital load in [0, 100] and
\* the crop supply in [10, 100], and each entry of the per-field breakdown
\* reports the simulated value as final and the applied delta as delta.
C17_SimulatedWithinClamps ==
    LET pipeline == fn.name \in {"run_delta_simulation", "run_simulation_pipeline"}
        simulated == IF pipeline THEN fn.out.simulated ELSE fn.out
        key == [aqi |-> "aqi_delta", temperature |-> "temperature_delta",
                hospital_load |-> "hospital_load_delta",
                crop_supply |-> "crop_supply_delta"]
        AppliedDelta(field) ==
            IF pipeline THEN fn.out.deltas[key[field]] ELSE Get(fn.deltas, key[field], 0)
    IN (pipeline \/ fn.name \in {"apply_deltas_to_baseline", "apply_to_baseline"}) =>
        /\ simulated.aqi \in Hundredths(0)..Hundredths(500)
        /\ simulated.temperature \in Hundredths(-10)..Hundredths(55)
        /\ simulated.hospital_load \in Hundredths(0)..Hundredths(100)
        /\ simulated.crop_supply \in Hundredths(10)..Hundredths(100)
        /\ "deltas_applied" \in DOMAIN simulated =>
               \A field \in DOMAIN key :
                   /\ simulated.deltas_applied[field].final = simulated[field]
                   /\ simulated.deltas_applied[field].delta = AppliedDelta(field)

C17_Witness ==
    /\ fn.name = "apply_deltas_to_baseline"
    /\ Get(fn.baseline, "aqi", 0) + Get(fn.deltas, "aqi_delta", 0) > Hundredths(500)
    /\ fn.out.aqi = Hundredths(500)
    /\ Get(fn.baseline, "crop_supply", Hundredths(70))
           + Get(fn.deltas, "crop_supply_delta", 0) < Hundredths(10)
    /\ fn.out.crop_supply = Hundredths(10)
    /\ fn.out.deltas_applied.crop_supply.delta = Hundredths(-90)

\* C18: run_delta_simulation takes one source of deltas, custom_deltas before
\* custom_prompt before the preset before the default: with custom deltas the
\* applied deltas are the caller's and the tag is custom whatever else is
\* supplied, else a prompt gives prompt_inference, else a preset gives preset,
\* else the four deltas are zero and the tag is default (an empty dict and an
\* empty text count as not supplied); run_simulation_pipeline orders prompt,
\* preset and default the same way.
C18_OneSourceByPriority ==
    /\ fn.name = "run_delta_simulation" =>
           LET deltas == fn.out.deltas
           IN IF TruthyDict(fn.custom_deltas)
                THEN /\ deltas.source = "custom"
                     /\ \A key \in {"aqi_delta", "temperature_delta",
                                    "hospital_load_delta", "crop_supply_delta"} :
                            deltas[key] = Get(fn.custom_deltas.d, key, 0)
              ELSE IF TruthyText(fn.custom_prompt)
                THEN deltas.source = "prompt_inference"
              ELSE IF Truthy(fn.scenario_type)
                THEN deltas.source = "preset"
              ELSE /\ deltas.source = "default"
                   /\ deltas.aqi_delta = 0 /\ deltas.temperature_delta = 0
                   /\ deltas.hospital_load_delta = 0 /\ deltas.crop_supply_delta = 0
    /\ fn.name = "run_simulation_pipeline" =>
           fn.out.deltas.source =
               IF TruthyText(fn.custom_prompt) THEN "prompt_inference"
               ELSE IF Truthy(fn.scenario_type) THEN "preset"
               ELSE "default"

C18_Witness ==
    /\ fn.name = "run_delta_simulation"
    /\ TruthyDict(fn.custom_deltas)
    /\ TruthyText(fn.custom_prompt)
    /\ Truthy(fn.scenario_type)
    /\ fn.out.deltas.source = "custom"
    /\ fn.out.deltas.signals = None
    /\ fn.out.deltas.hospital_load_delta = Hundredths(20)

\* The sum over the primary events of the base-impact rows, aqi times the
\* severity multiplier, hospital and food times both multipliers, plus the
\* rows of the secondary impacts (temperature is not part of the statement).
CompositionalSum(signals) ==
    LET BaseImpact(event) ==
            IF event = "flood" THEN Deltas(-10, -4, 12, -8)
            ELSE IF event = "heatwave" THEN Deltas(25, 5, 15, -10)
            ELSE IF event = "pollution" THEN Deltas(100, 1, 10, -2)
            ELSE IF event = "drought" THEN Deltas(15, 3, 8, -25)
            ELSE IF event = "cyclone" THEN Deltas(-15, -3, 20, -15)
            ELSE Deltas(0, 0, 0, 0)
        SecondaryImpact(impact) ==
            IF impact = "transport_disruption" THEN Deltas(0, 0, 15, -5)
            ELSE IF impact = "hospital_access_reduction" THEN Deltas(0, 0, 25, 0)
            ELSE IF impact = "food_supply_disruption" THEN Deltas(0, 0, 0, -10)
            ELSE Deltas(0, 0, 0, 0)
        s == sev_mult(signals.severity)
        d == dur_mult(signals.duration)
        events == SelectSeq(signals.primary_events, LAMBDA e : e # "none")
        primary ==
            SumDeltas([i \in 1..Len(events) |->
                Deltas(BaseImpact(events[i]).aqi_delta * s, 0,
                       Times(BaseImpact(events[i]).hospital_load_delta, s, d),
                       Times(BaseImpact(events[i]).crop_supply_delta, s, d))])
        secondary ==
            SumDeltas([i \in 1..Len(signals.secondary_impacts) |->
                Deltas(0, 0,
                       Hundredths(SecondaryImpact(signals.secondary_impacts[i]).hospital_load_delta),
                       Hundredths(SecondaryImpact(signals.secondary_impacts[i]).crop_supply_delta))])
    IN AddDeltas(primary, secondary)

\* C19: for every ScenarioSignals value the aqi, hospital and food deltas are
\* the compositional sum of the base-impact rows of its primary events, aqi
\* scaled by the severity multiplier, hospital and food by the severity and
\* the duration multiplier, plus the row of each secondary impact.
C19_DeltasAreCompositionalSum ==
    fn.name \in {"get_deltas_from_signals", "get_deltas"} =>
        /\ fn.out.aqi_delta = CompositionalSum(fn.signals).aqi_delta
        /\ fn.out.hospital_load_delta = CompositionalSum(fn.signals).hospital_load_delta
        /\ fn.out.crop_supply_delta = CompositionalSum(fn.signals).crop_supply_delta

\* The end-to-end scenario: the monsoon prompt against the live baseline
\* (aqi 150, temperature 30, hospital_load 50, crop_supply 70).
MonsoonScenario ==
    /\ fn.name = "run_delta_simulation"
    /\ ~TruthyDict(fn.custom_deltas)
    /\ fn.custom_prompt = Text(PromptMonsoon)
    /\ fn.baseline_metrics = BaselineLive

MonsoonSignals ==
    ScenarioSignals(<<"flood">>, "prolonged", "moderate",
                    <<"transport_disruption", "hospital_access_reduction">>, "high")

\* C20, as the code has it: the monsoon prompt gives the signals flood,
\* moderate, prolonged, transport_disruption and hospital_access_reduction,
\* confidence high; the hospital_load_delta is 58 (12 x 1.0 x 1.5 + 15 + 25),
\* above 55; against the baseline the final hospital_load is clamped to 100
\* and the final crop_supply is 53.
C20_MonsoonDeltaIs58 ==
    /\ (fn.name = "extract_scenario_signals" /\ fn.prompt = PromptMonsoon) =>
           fn.out = MonsoonSignals
    /\ MonsoonScenario =>
           /\ fn.out.deltas.signals = MonsoonSignals
           /\ fn.out.deltas.hospital_load_delta = Hundredths(58)
           /\ fn.out.simulated.hospital_load = Hundredths(100)
           /\ fn.out.simulated.crop_supply = Hundredths(53)

C20_Witness ==
    /\ MonsoonScenario
    /\ fn.out.deltas.source = "prompt_inference"
    /\ fn.out.deltas.hospital_load_delta = Hundredths(58)
    /\ fn.out.simulated.deltas_applied.hospital_load.final = Hundredths(100)

\* C20, as stated: for the monsoon prompt the hospital_load_delta lies in
\* [30, 55], the final hospital_load in [0, 100] and the final crop_supply is
\* at least 10.
C20_MonsoonDeltaWithin30And55 ==
    MonsoonScenario =>
        /\ fn.out.deltas.signals = MonsoonSignals
        /\ fn.out.deltas.hospital_load_delta \in Hundredths(30)..Hundredths(55)
        /\ fn.out.simulated.hospital_load \in Hundredths(0)..Hundredths(100)
        /\ fn.out.simulated.crop_supply >= Hundredths(10)

\* C21: the extraction confidence depends only on the number of matched
\* primary events plus matched secondary impacts: high from 2 on, medium for
\* exactly 1, low for 0; a matched severity or duration keyword does not
\* change it.
C21_ConfidenceCountsEventsAndImpacts ==
    fn.name \in {"extract_scenario_signals", "extract_signals"} =>
        LET events == SelectSeq(fn.out.primary_events, LAMBDA e : e # "none")
            count == Len(events) + Len(fn.out.secondary_impacts)
        IN fn.out.confidence =
               IF count >= 2 THEN "high" ELSE IF count = 1 THEN "medium" ELSE "low"

\* C22: get_merged_state returns the stored value of every field some
\* update has stored (a stored 0 included) and the documented default only
\* for a field no update has set.
C22_MergedStateKeepsStoredValues ==
    fn.name = "get_merged_state" =>
        LET Merged(stored, default) == IF stored # None THEN stored ELSE Num(default)
            env == state_manager.environmental_state
            health == state_manager.health_state
            food == state_manager.food_state
        IN /\ fn.out.aqi = Merged(env.aqi, 100)
           /\ fn.out.temperature = Merged(env.temperature, 25)
           /\ fn.out.humidity = Merged(env.humidity, 60)
           /\ fn.out.hospital_load = Merged(health.hospital_load, 50)
           /\ fn.out.respiratory_cases = Merged(health.respiratory_cases, 100)
           /\ fn.out.price_volatility = Merged(food.price_volatility, 10)
           /\ fn.out.crop_supply_index = Merged(food.supply_index, 80)

\* The slot an update wrote, before and after it, and the recognised fields
\* its data carries with a non-null value.
UpdatedSlot(self) ==
    IF fn.domain = "environmental" THEN self.environmental_state
    ELSE IF fn.domain = "health" THEN self.health_state
    ELSE self.food_state

GivenFields ==
    {f \in DOMAIN UpdatedSlot(fn.before) \ {"timestamp"} : Get(fn.data, f, None) # None}

\* C23: an update returns true exactly when it changed the content of the
\* slot: it returns false when every non-null recognised field equals the
\* value already stored, and when it carries no such field.
C23_ChangedIffContentChanged ==
    fn.name = "update" =>
        (fn.changed <=> \E f \in GivenFields : fn.data[f] # UpdatedSlot(fn.before)[f])

\* C24: an update merges only its non-null recognised fields into its own
\* slot and leaves the slot's other fields, the other two slots, the history
\* and the rate-gate timestamp as they were; when it stored a field, the
\* slot's timestamp is the provided timestamp or the current time and is not
\* null; and no field that was set becomes null.
C24_UpdateFrame ==
    fn.name = "update" =>
        LET before == UpdatedSlot(fn.before)
            after == UpdatedSlot(state_manager)
        IN /\ \A f \in DOMAIN before \ {"timestamp"} :
                  /\ after[f] = (IF f \in GivenFields THEN fn.data[f] ELSE before[f])
                  /\ before[f] # None => after[f] # None
           /\ \A other \in {"environmental_state", "health_state", "food_state",
                            "prediction_history", "latest_prediction",
                            "last_inference_time", "connected_clients"} :
                  state_manager[other] # fn.before[other] =>
                      /\ state_manager[other] = after
                      /\ fn.before[other] = before
           /\ GivenFields = {} => after.timestamp = before.timestamp
           /\ GivenFields # {} =>
                  /\ after.timestamp = Get(fn.data, "timestamp", DateTime(now))
                  /\ after.timestamp # None

\* C25: the trend summary has status ok whenever the history holds at least
\* five records, and reports insufficient data only when it holds fewer.
C25_TrendOkFromFiveRecords ==
    (Len(state_manager.prediction_history) >= 5)
        <=> (get_trend_summary(state_manager).status = "ok")

(***************************************************************************)
(* Cascade analysis (api/cascade.py).  The trigger severity is given in    *)
(* hundredths; the propagated severities are in 1/100000, so that every    *)
(* product with an edge weight is exact.  A reported severity is rounded   *)
(* to hundredths; round() of a floating-point value that lies halfway      *)
(* between two hundredths goes either way, as `half` says.                 *)
(***************************************************************************)
SeverityUnit == 1000

\* The edges of the response, with weights in hundredths.
CascadeEdges ==
    {[source |-> "environmental", target |-> "health", weight |-> 70],
     [source |-> "environmental", target |-> "agriculture", weight |-> 50],
     [source |-> "health", target |-> "economy", weight |-> 35],
     [source |-> "agriculture", target |-> "economy", weight |-> 40]}

\* round(num / den, 2)-style rounding of num / den to an integer.
RoundHalf(num, den, half) ==
    LET q == num \div den
        twice == 2 * (num - q * den)
    IN IF twice < den THEN q
       ELSE IF twice > den THEN q + 1
       ELSE q + half

analyze_cascade(trigger_system, trigger_severity, half) ==
    LET severity == trigger_severity * SeverityUnit
        initial == [sys \in {"environmental", "health", "agriculture", "economy",
                             trigger_system} |->
                        IF sys = trigger_system THEN severity ELSE 0]
        propagated_health == (severity * 70) \div 100
        propagated_agri == (severity * 50) \div 100
        direct == IF trigger_system = "environmental"
                  THEN [initial EXCEPT !["health"] = Max(@, propagated_health),
                                       !["agriculture"] = Max(@, propagated_agri)]
                  ELSE initial
        propagated_econ_h == (direct["health"] * 35) \div 100
        propagated_econ_a == (direct["agriculture"] * 40) \div 100
        total_econ == Min(propagated_econ_h + propagated_econ_a, 100 * SeverityUnit)
        systems_state == [direct EXCEPT !["economy"] = total_econ]
        affected == {sys \in DOMAIN systems_state :
                         systems_state[sys] > 10 * SeverityUnit}
        Sum[S \in SUBSET DOMAIN systems_state] ==
            IF S = {} THEN 0
            ELSE LET sys == CHOOSE x \in S : TRUE
                 IN systems_state[sys] + Sum[S \ {sys}]
        stage1 == <<[stage |-> 1, system |-> trigger_system, severity |-> severity]>>
        stage2 == IF trigger_system = "environmental"
                  THEN (IF propagated_health > 10 * SeverityUnit
                        THEN <<[stage |-> 2, system |-> "health",
                                severity |-> propagated_health]>>
                        ELSE <<>>)
                       \o (IF propagated_agri > 10 * SeverityUnit
                           THEN <<[stage |-> 2, system |-> "agriculture",
                                   severity |-> propagated_agri]>>
                           ELSE <<>>)
                  ELSE <<>>
        stage3 == IF total_econ > 10 * SeverityUnit
                  THEN <<[stage |-> 3, system |-> "economy", severity |-> total_econ]>>
                  ELSE <<>>
    IN [systems |-> [sys \in DOMAIN systems_state |->
                        [severity |-> RoundHalf(systems_state[sys], SeverityUnit,
                                                half[sys]),
                         affected |-> sys \in affected]],
        edges |-> CascadeEdges,
        propagation_timeline |-> stage1 \o stage2 \o stage3,
        impact_summary |->
            [systems_affected |-> Cardinality(affected),
             cascade_stages |-> IF Cardinality(affected) > 1 THEN 3 ELSE 1,
             average_severity |->
                 IF Cardinality(affected) > 0
                 THEN RoundHalf(Sum[affected], SeverityUnit * Cardinality(affected),
                                half["average"])
                 ELSE 0]]

\* The trigger severities the analysis is applied to, in hundredths.
SeverityStep == 5

AnalyzeCascade ==
    /\ fn = NoFn
    /\ \E trigger_system \in {"environmental", "health", "agriculture", "economy", "food"},
          i \in 0..(100 \div SeverityStep),
          half \in [{"environmental", "health", "agriculture", "economy", "food",
                     "average"} -> {0, 1}] :
          fn' = [name |-> "analyze_cascade", trigger_system |-> trigger_system,
                 trigger_severity |-> i * SeverityStep,
                 out |-> analyze_cascade(trigger_system, i * SeverityStep, half)]
    /\ UNCHANGED server

\* CascadingRiskEngine._apply_policy_adjustments for the environmental
\* policies traffic_reduction and aqi_cap (api/../model/cascading_engine.py);
\* the other policies are left out.  aqi and aqi_cap are in thousandths and
\* a reduction in hundredths, so that aqi * (1 - reduction * 0.3) is exact.
\* `metrics` is the caller's bag as the call leaves it, `adjusted` the bag
\* returned.
apply_policy_adjustments(metrics, policy_adjustments) ==
    LET copy == metrics
        traffic ==
            IF "traffic_reduction" \in DOMAIN policy_adjustments
               /\ "traffic_density" \in DOMAIN copy
            THEN LET reduction == policy_adjustments.traffic_reduction
                     current == copy.traffic_density
                     lowered == IF reduction >= 50 /\ current > 1 THEN current - 2
                                ELSE IF reduction >= 25 /\ current > 0 THEN current - 1
                                ELSE current
                     stepped == [copy EXCEPT !.traffic_density = Max(0, lowered)]
                 IN IF "aqi" \in DOMAIN stepped
                    THEN [stepped EXCEPT !.aqi = (@ * (1000 - 3 * reduction)) \div 1000]
                    ELSE stepped
            ELSE copy
        capped ==
            IF "aqi_cap" \in DOMAIN policy_adjustments /\ "aqi" \in DOMAIN traffic
            THEN [traffic EXCEPT !.aqi = Min(@, policy_adjustments.aqi_cap)]
            ELSE traffic
    IN [metrics |-> metrics, adjusted |-> capped]

ApplyPolicyAdjustments ==
    /\ fn = NoFn
    /\ \E traffic_density \in {Absent, Num(0), Num(1), Num(2), Num(3)},
          aqi \in {Absent, Num(150000), Num(90000)},
          hospital_load \in {Absent, Num(80)},
          traffic_reduction \in {Absent, Num(0), Num(10), Num(25), Num(30), Num(50),
                                 Num(100)},
          aqi_cap \in {Absent, Num(100000)} :
          LET metrics == NumberBag([traffic_density |-> traffic_density, aqi |-> aqi,
                                    hospital_load |-> hospital_load])
              policy_adjustments == NumberBag([traffic_reduction |-> traffic_reduction,
                                               aqi_cap |-> aqi_cap])
              result == apply_policy_adjustments(metrics, policy_adjustments)
          IN fn' = [name |-> "_apply_policy_adjustments", metrics |-> metrics,
                    policy_adjustments |-> policy_adjustments,
                    metrics_after |-> result.metrics, out |-> result.adjusted]
    /\ UNCHANGED server

\* calculate_resilience_score of api/risk_assessment.py, the score of the
\* risk-assessment and delta-scenario responses.  Probabilities and the
\* confidence are in hundredths; the result is in 1/10000 of the 0..1 scale.
risk_assessment_resilience_score(env_prob, health_prob, food_prob, confidence) ==
    LET w_env == 35
        w_health == 45
        w_food == 20
        w_uncertainty == 10
        risk_component == w_env * env_prob + w_health * health_prob + w_food * food_prob
        uncertainty_penalty == w_uncertainty * (100 - confidence)
        resilience == 100 * 100 - (risk_component + uncertainty_penalty)
    IN Max(0, Min(100 * 100, resilience))

\* compute_risk_assessment scoring the three probabilities it assessed; the
\* state's confidence defaults to 0.5 when the key is missing.
ComputeRiskAssessment ==
    /\ fn = NoFn
    /\ \E env, health, food \in {0, 25, 50, 75, 100},
          confidence \in {Absent, Num(0), Num(50), Num(100)} :
          LET current_state == NumberBag([confidence |-> confidence])
          IN fn' = [name |-> "compute_risk_assessment", current_state |-> current_state,
                    environmental_prob |-> env, health_prob |-> health,
                    food_security_prob |-> food,
                    resilience_score |->
                        risk_assessment_resilience_score(
                            env, health, food, Get(current_state, "confidence", 50))]
    /\ UNCHANGED server

NextPolicy ==
    \/ AnalyzeCascade
    \/ ApplyPolicyAdjustments
    \/ ComputeRiskAssessment

SpecPolicy == Init /\ [][NextPolicy]_vars

\* C26: for a trigger that is a node of the edge set and a severity s, the
\* analysis reports the trigger with severity s, each direct successor with
\* s times the edge weight and each further downstream node with the sum of
\* its incoming weighted severities clamped to 1 (each up to the rounding of
\* the report to hundredths); a node is affected exactly when that severity
\* exceeds 0.1, and every reported severity lies in [0,1].
C26_CascadePropagation ==
    (/\ fn.name = "analyze_cascade"
     /\ \E e \in CascadeEdges : fn.trigger_system \in {e.source, e.target}) =>
        LET s == fn.trigger_severity * SeverityUnit
            Weight(a, b) ==
                IF \E e \in CascadeEdges : e.source = a /\ e.target = b
                THEN (CHOOSE e \in CascadeEdges : e.source = a /\ e.target = b).weight
                ELSE 0
            Direct(sys) == (s * Weight(fn.trigger_system, sys)) \div 100
            Downstream(sys) ==
                Min((Direct("health") * Weight("health", sys)) \div 100
                    + (Direct("agriculture") * Weight("agriculture", sys)) \div 100,
                    100 * SeverityUnit)
            Expected(sys) ==
                IF sys = fn.trigger_system THEN s
                ELSE IF Weight(fn.trigger_system, sys) > 0 THEN Direct(sys)
                ELSE Downstream(sys)
        IN \A sys \in DOMAIN fn.out.systems :
               LET node == fn.out.systems[sys]
               IN /\ 2 * (node.severity * SeverityUnit - Expected(sys)) \in
                         (-SeverityUnit)..SeverityUnit
                  /\ node.affected <=> Expected(sys) > 10 * SeverityUnit
                  /\ node.severity \in 0..100

\* C27: traffic_reduction r applied alone lowers traffic_density by one step
\* when 0.25 <= r < 0.50 and by two steps when r >= 0.50, never below 0,
\* multiplies aqi by (1 - 0.3 r) whenever the bag has an aqi, leaves every
\* other field as it was, and does not modify the caller's bag.
C27_TrafficReduction ==
    (/\ fn.name = "_apply_policy_adjustments"
     /\ DOMAIN fn.policy_adjustments = {"traffic_reduction"}) =>
        LET r == fn.policy_adjustments.traffic_reduction
            steps == IF r >= 50 THEN 2 ELSE IF r >= 25 THEN 1 ELSE 0
        IN /\ DOMAIN fn.out = DOMAIN fn.metrics
           /\ \A field \in DOMAIN fn.metrics :
                  fn.out[field] =
                      IF field = "traffic_density" THEN Max(0, fn.metrics[field] - steps)
                      ELSE IF field = "aqi"
                      THEN (fn.metrics[field] * (1000 - 3 * r)) \div 1000
                      ELSE fn.metrics[field]
           /\ fn.metrics_after = fn.metrics

\* C28: the resilience_score of a risk-assessment or delta-scenario response
\* is the score of the fixed formula with the weights 0.35, 0.40 and 0.25 on
\* the three probabilities of the same response, on the integer 0..100 scale
\* (compared here after bringing the response's score to that scale).
C28_ResponseScoreUsesFixedWeights ==
    fn.name = "compute_risk_assessment" =>
        IntTrunc(fn.resilience_score, 100) =
            calculate_resilience_score(fn.environmental_prob, fn.health_prob,
                                       fn.food_security_prob)

\* C29: the two delta engines compute the same result: for every signals
\* value get_deltas_from_signals and get_deltas give the same aqi,
\* temperature, hospital-load and crop-supply deltas, and for every prompt
\* extract_scenario_signals and extract_signals give the same signals.
C29_DeltaEnginesAgree ==
    /\ fn.name = "get_deltas_from_signals" =>
           \A delta \in {"aqi_delta", "temperature_delta", "hospital_load_delta",
                         "crop_supply_delta"} :
               fn.out[delta] = get_deltas(fn.signals)[delta]
    /\ fn.name = "extract_scenario_signals" => fn.out = extract_signals(fn.prompt)

\* C30: in every reachable state the latest prediction is null exactly when
\* the history is empty and is otherwise the last record of the history; an
\* inference that fails after passing the rate gate leaves the history and
\* the latest prediction as they were and advances the gate's timestamp to
\* the time of the call.
C30_LatestIsLastOfHistory ==
    /\ state_manager.latest_prediction = None
           <=> state_manager.prediction_history = <<>>
    /\ state_manager.prediction_history # <<>> =>
           state_manager.latest_prediction = Last(state_manager.prediction_history)
    /\ call.gate = "failed" =>
           /\ state_manager.prediction_history = call.before.prediction_history
           /\ state_manager.latest_prediction = call.before.latest_prediction
           /\ state_manager.last_inference_time = now
           /\ state_manager.last_inference_time > call.before.last_inference_time

\* An inference failed after the gate admitted it, later than a prediction
\* that is still the latest one.
C30_Witness ==
    /\ call.gate = "failed"
    /\ state_manager.prediction_history # <<>>
    /\ state_manager.latest_prediction = Last(state_manager.prediction_history)
    /\ state_manager.last_inference_time
           > state_manager.latest_prediction.timestamp.v
====
